---- MODULE Spec2Model ----
(***************************************************************************)
(* Model of the point-cloud -> navigable-mesh pipeline of splatnav         *)
(* (src/src/utils/gsMeshGenerator.ts, generateNavigableMesh and the        *)
(* helpers it calls).                                                      *)
(*                                                                         *)
(* Numbers.  A JavaScript number is modelled as a record [k, v]:           *)
(*   [k |-> "fin", v |-> n]   the finite value n * 5e-11                   *)
(*   [k |-> "nan", v |-> 0]   NaN                                          *)
(*   [k |-> "inf", v |-> s]   +Infinity (s = 1) or -Infinity (s = -1)      *)
(* Finite values are exact integers counted in units of 5e-11, so that     *)
(* POINT_TOLERANCE (1e-6) is 20000 units and the collinearity offset       *)
(* (1e-4 of a bounding-box side) of a side that is a multiple of 10000     *)
(* units is a whole number of units.  Products of two coordinates do not   *)
(* fit TLC's 32-bit integers; they are computed exactly on base-10000      *)
(* digit sequences (the Big* operators).                                   *)
(*                                                                         *)
(* Local variables.  A "const x = e" of the code whose value is used more  *)
(* than once is bound by a quantifier over the singleton {e}, in an action *)
(* as \E x \in {e} : ..., in an expression as The({ ... : x \in {e} }):    *)
(* e is then computed once, as in the code, also where TLC evaluates a     *)
(* LET definition anew at each of its uses.                                *)
(***************************************************************************)
EXTENDS Integers, Sequences, FiniteSets, TLC

\* the element of a singleton set
The(S) == CHOOSE x \in S : TRUE

\* ------------------------------------------------------------------------
\* Exact naturals of any size: little-endian base-10000 digit sequences
\* without leading zeros (zero is << >>).
BigBase == 10000

RECURSIVE BigFromInt(_)
BigFromInt(n) ==
  IF n = 0 THEN << >> ELSE << n % BigBase >> \o BigFromInt(n \div BigBase)

\* the i-th digit of a, 0 above the last
BigDigit(a, i) == IF i <= Len(a) THEN a[i] ELSE 0

\* the first n digits of a without the leading zeros among them
RECURSIVE BigStripTo(_, _)
BigStripTo(a, n) ==
  IF n = 0 THEN << >>
  ELSE IF a[n] = 0 THEN BigStripTo(a, n - 1) ELSE SubSeq(a, 1, n)

BigStrip(a) == The({ BigStripTo(x, Len(x)) : x \in {a} })

\* the digits of a + b from the i-th on, carry coming from the digits below
RECURSIVE BigAddC(_, _, _, _)
BigAddC(a, b, i, carry) ==
  IF i > Len(a) /\ i > Len(b)
  THEN IF carry = 0 THEN << >> ELSE << carry >>
  ELSE The({ << s % BigBase >> \o BigAddC(a, b, i + 1, s \div BigBase) :
             s \in { BigDigit(a, i) + BigDigit(b, i) + carry } })

BigAdd(a, b) == The({ BigAddC(x, y, 1, 0) : x \in {a}, y \in {b} })

\* the digits of a * d from the i-th on, for a small factor 0 <= d <= 100000
RECURSIVE BigMulSmallC(_, _, _, _)
BigMulSmallC(a, d, i, carry) ==
  IF i > Len(a) THEN BigFromInt(carry)
  ELSE The({ << s % BigBase >> \o BigMulSmallC(a, d, i + 1, s \div BigBase) :
             s \in { a[i] * d + carry } })

BigMulSmall(a, d) == The({ BigStrip(BigMulSmallC(x, d, 1, 0)) : x \in {a} })

\* a times the digits of b from the j-th on
RECURSIVE BigMulC(_, _, _)
BigMulC(a, b, j) ==
  IF a = << >> \/ j > Len(b) THEN << >>
  ELSE The({ BigAdd(BigMulSmall(a, b[j]),
                    IF rest = << >> THEN << >> ELSE << 0 >> \o rest) :
             rest \in { BigMulC(a, b, j + 1) } })

BigMul(a, b) == The({ BigMulC(x, y, 1) : x \in {a}, y \in {b} })

\* a < b on the first n digits of two numbers of the same length
RECURSIVE BigLtSameLen(_, _, _)
BigLtSameLen(a, b, n) ==
  IF n = 0 THEN FALSE
  ELSE IF a[n] # b[n] THEN a[n] < b[n]
  ELSE BigLtSameLen(a, b, n - 1)

BigLt(a, b) ==
  \E x \in {a} : \E y \in {b} :
    IF Len(x) # Len(y) THEN Len(x) < Len(y) ELSE BigLtSameLen(x, y, Len(x))

\* the digits of a - b from the i-th on, for a >= b
RECURSIVE BigSubB(_, _, _, _)
BigSubB(a, b, i, borrow) ==
  IF i > Len(a) THEN << >>
  ELSE The({ << IF s < 0 THEN s + BigBase ELSE s >> \o
               BigSubB(a, b, i + 1, IF s < 0 THEN 1 ELSE 0) :
             s \in { a[i] - BigDigit(b, i) - borrow } })

BigAbsDiff(a, b) ==
  The({ IF BigLt(x, y) THEN BigStrip(BigSubB(y, x, 1, 0))
        ELSE BigStrip(BigSubB(x, y, 1, 0)) : x \in {a}, y \in {b} })

IntAbs(n) == IF n < 0 THEN -n ELSE n
IntSign(n) == IF n < 0 THEN -1 ELSE IF n > 0 THEN 1 ELSE 0
IntMin(a, b) == IF a < b THEN a ELSE b
IntMax(a, b) == IF a > b THEN a ELSE b

\* |a*b - c*d| as a Big natural, for integers a, b, c, d
BigAbsCross(a, b, c, d) ==
  LET sp == IntSign(a) * IntSign(b)
      sq == IntSign(c) * IntSign(d)
  IN  The({ IF sp = 0 THEN q
            ELSE IF sq = 0 THEN p
            ELSE IF sp = sq THEN BigAbsDiff(p, q) ELSE BigAdd(p, q) :
            p \in { BigMul(BigFromInt(IntAbs(a)), BigFromInt(IntAbs(b))) },
            q \in { BigMul(BigFromInt(IntAbs(c)), BigFromInt(IntAbs(d))) } })

\* ------------------------------------------------------------------------
\* JavaScript numbers
Fin(n) == [k |-> "fin", v |-> n]
NaN == [k |-> "nan", v |-> 0]
PosInf == [k |-> "inf", v |-> 1]
NegInf == [k |-> "inf", v |-> -1]

isNaN(a) == a.k = "nan"
isFinite(a) == a.k = "fin"

FNeg(a) == IF a.k = "nan" THEN NaN ELSE [k |-> a.k, v |-> -a.v]

FAdd(a, b) ==
  IF a.k = "nan" \/ b.k = "nan" THEN NaN
  ELSE IF a.k = "inf" /\ b.k = "inf" THEN (IF a.v = b.v THEN a ELSE NaN)
  ELSE IF a.k = "inf" THEN a
  ELSE IF b.k = "inf" THEN b
  ELSE Fin(a.v + b.v)

FSub(a, b) == FAdd(a, FNeg(b))

FAbs(a) ==
  IF a.k = "nan" THEN NaN
  ELSE IF a.k = "inf" THEN PosInf
  ELSE Fin(IntAbs(a.v))

\* a < b; false as soon as one side is NaN
FLt(a, b) ==
  IF a.k = "nan" \/ b.k = "nan" THEN FALSE
  ELSE IF a.k = "inf" THEN a.v = -1 /\ ~(b.k = "inf" /\ b.v = -1)
  ELSE IF b.k = "inf" THEN b.v = 1
  ELSE a.v < b.v

FGt(a, b) == FLt(b, a)

\* Math.max / Math.min of two numbers (NaN if either is NaN)
FMax(a, b) ==
  IF a.k = "nan" \/ b.k = "nan" THEN NaN ELSE IF FLt(a, b) THEN b ELSE a

FMin(a, b) ==
  IF a.k = "nan" \/ b.k = "nan" THEN NaN ELSE IF FLt(b, a) THEN b ELSE a

\* the sign of a number that is not NaN: -1, 0, 1
FSign(a) == IF a.k = "inf" THEN a.v ELSE IntSign(a.v)

\* Math.floor(a / d) for a finite d > 0
FFloorDiv(a, d) == IF a.k = "fin" THEN Fin(a.v \div d) ELSE a

\* a * n for an integer n that is not 0
FMulInt(a, n) ==
  IF a.k = "nan" THEN NaN
  ELSE IF a.k = "inf" THEN [k |-> "inf", v |-> a.v * IntSign(n)]
  ELSE Fin(a.v * n)

\* a * (1 / d) for a power of ten d, a finite multiple of d or not finite
FScaleDown(a, d) == IF a.k = "fin" THEN Fin(a.v \div d) ELSE a

\* ------------------------------------------------------------------------
\* Program constants (gsMeshGenerator.ts lines 26-30), in units of 5e-11
POINT_TOLERANCE == 20000

\* 1e-3 as a count of units: NEAR_COLLINEAR_TOLERANCE and MIN_POINT_SPREAD_RATIO
\* are the ratio 1 / 1000
NEAR_COLLINEAR_TOLERANCE_DEN == 1000
MIN_POINT_SPREAD_RATIO_DEN == 1000

\* 1e-6 = (1000 * POINT_TOLERANCE)^2 square units
MIN_BOUNDING_BOX_AREA ==
  BigMul(BigFromInt(1000 * POINT_TOLERANCE), BigFromInt(1000 * POINT_TOLERANCE))

\* hashPoint with a key that leaves z out
hashPointWithoutZ(x, z, tolerance) == << FFloorDiv(x, tolerance), Fin(0) >>

\* hashPoint with buckets of half the tolerance
hashPointHalfTolerance(x, z, tolerance) ==
  << FFloorDiv(x, tolerance \div 2), FFloorDiv(z, tolerance \div 2) >>

\* ------------------------------------------------------------------------
\* hashPoint: the key `${gridX},${gridZ}` is the pair of the two floors
hashPoint(x, z, tolerance) == << FFloorDiv(x, tolerance), FFloorDiv(z, tolerance) >>

\* a validated point that stores x in z and z in x
ValidatedPointSwapped(x, z, originalIndex, y) ==
  [x |-> z, z |-> x, originalIndex |-> originalIndex, y |-> y]

ValidatedPoint(x, z, originalIndex, y) ==
  [x |-> x, z |-> z, originalIndex |-> originalIndex, y |-> y]

BoundingBox(minX, maxX, minZ, maxZ) ==
  [minX |-> minX, maxX |-> maxX, minZ |-> minZ, maxZ |-> maxZ,
   width |-> FSub(maxX, minX), height |-> FSub(maxZ, minZ)]

\* The loop of validateAndDeduplicatePoints from index i on; acc holds
\* pointMap (keys, points in insertion order), originalIndices and the
\* running extremes.  positions is the flat buffer (1-based here).
RECURSIVE DedupLoop(_, _, _, _, _)
DedupLoop(positions, count, originalYCoords, i, acc) ==
  IF i >= count THEN acc
  ELSE
    LET x == positions[i * 3 + 1]
        z == positions[i * 3 + 3]
        y == originalYCoords[i + 1]
        pointKey == hashPoint(x, z, POINT_TOLERANCE)
    IN  The({ DedupLoop(positions, count, originalYCoords, i + 1, next) :
              next \in {
                IF pointKey \notin acc.keys
                THEN [keys |-> acc.keys \cup {pointKey},
                      points |-> Append(acc.points, ValidatedPoint(x, z, i, y)),
                      originalIndices |-> Append(acc.originalIndices, i),
                      minX |-> IF FLt(x, acc.minX) THEN x ELSE acc.minX,
                      maxX |-> IF FGt(x, acc.maxX) THEN x ELSE acc.maxX,
                      minZ |-> IF FLt(z, acc.minZ) THEN z ELSE acc.minZ,
                      maxZ |-> IF FGt(z, acc.maxZ) THEN z ELSE acc.maxZ]
                ELSE acc } })

validateAndDeduplicatePoints(positions, count, originalYCoords) ==
  The({ [validatedPoints |-> acc.points,
         originalIndices |-> acc.originalIndices,
         boundingBox |-> BoundingBox(acc.minX, acc.maxX, acc.minZ, acc.maxZ)] :
        acc \in { DedupLoop(positions, count, originalYCoords, 0,
                    [keys |-> {}, points |-> << >>, originalIndices |-> << >>,
                     minX |-> PosInf, maxX |-> NegInf,
                     minZ |-> PosInf, maxZ |-> NegInf]) } })

\* ------------------------------------------------------------------------
RECURSIVE RangeLoop(_, _, _)
RangeLoop(points, i, acc) ==
  IF i > Len(points) THEN acc
  ELSE The({ RangeLoop(points, i + 1, next) :
             next \in {
               LET p == points[i]
               IN  [minX |-> IF FLt(p.x, acc.minX) THEN p.x ELSE acc.minX,
                    maxX |-> IF FGt(p.x, acc.maxX) THEN p.x ELSE acc.maxX,
                    minZ |-> IF FLt(p.z, acc.minZ) THEN p.z ELSE acc.minZ,
                    maxZ |-> IF FGt(p.z, acc.maxZ) THEN p.z ELSE acc.maxZ] } })

\* (a + b) / 2 is kept as the sum a + b: the centre counted in half units
computeCoordinateRange(points) ==
  The({ [minX |-> acc.minX, maxX |-> acc.maxX, minZ |-> acc.minZ, maxZ |-> acc.maxZ,
         spreadX |-> FSub(acc.maxX, acc.minX),
         spreadZ |-> FSub(acc.maxZ, acc.minZ),
         centerX2 |-> FAdd(acc.minX, acc.maxX),
         centerZ2 |-> FAdd(acc.minZ, acc.maxZ)] :
        acc \in { RangeLoop(points, 1,
                    [minX |-> PosInf, maxX |-> NegInf,
                     minZ |-> PosInf, maxZ |-> NegInf]) } })

\* ------------------------------------------------------------------------
\* area < tolerance * tolerance for the triple p1, p2, p3 of checkCollinearity,
\* with area = |dx1 * dz2 - dz1 * dx2| / 2 and tolerance = maxSpread / 1000
NearZeroArea(p1, p2, p3, maxSpread) ==
  LET dx1 == FSub(p2.x, p1.x)
      dz1 == FSub(p2.z, p1.z)
      dx2 == FSub(p3.x, p2.x)
      dz2 == FSub(p3.z, p2.z)
  IN  IF ~(isFinite(dx1) /\ isFinite(dz1) /\ isFinite(dx2) /\ isFinite(dz2))
      THEN FALSE  \* the area is NaN or Infinity
      ELSE IF isNaN(maxSpread) THEN FALSE
      ELSE IF ~isFinite(maxSpread) THEN TRUE  \* tolerance^2 is Infinity
      ELSE \* |cross| / 2 < (maxSpread / 1000)^2
           BigLt(BigMul(BigAbsCross(dx1.v, dz2.v, dz1.v, dx2.v),
                        BigFromInt((NEAR_COLLINEAR_TOLERANCE_DEN
                                    * NEAR_COLLINEAR_TOLERANCE_DEN) \div 2)),
                 BigMul(BigFromInt(IntAbs(maxSpread.v)),
                        BigFromInt(IntAbs(maxSpread.v))))

nearCollinearCount(points, maxSpread) ==
  Cardinality({i \in 1..(Len(points) - 2) :
                 NearZeroArea(points[i], points[i + 1], points[i + 2], maxSpread)})

checkCollinearity(points) ==
  IF Len(points) < 3 THEN FALSE
  ELSE
    LET firstPoint == points[1]
        allSameX == \A i \in 2..Len(points) :
                      ~FGt(FAbs(FSub(points[i].x, firstPoint.x)), Fin(POINT_TOLERANCE))
        allSameZ == \A i \in 2..Len(points) :
                      ~FGt(FAbs(FSub(points[i].z, firstPoint.z)), Fin(POINT_TOLERANCE))
    IN  IF allSameX \/ allSameZ THEN TRUE
        ELSE \E coordRange \in { computeCoordinateRange(points) } :
             \E maxSpread \in { FMax(coordRange.spreadX, coordRange.spreadZ) } :
               \* tolerance < POINT_TOLERANCE, tolerance = maxSpread * 1e-3
               IF FLt(maxSpread, Fin(NEAR_COLLINEAR_TOLERANCE_DEN * POINT_TOLERANCE))
               THEN FALSE
               \* nearCollinearCount >= points.length * 0.9
               ELSE 10 * nearCollinearCount(points, maxSpread) >= 9 * Len(points)

\* ------------------------------------------------------------------------
\* width * height < MIN_BOUNDING_BOX_AREA
AreaTooSmall(boundingBox) ==
  LET w == boundingBox.width
      h == boundingBox.height
  IN  IF isNaN(w) \/ isNaN(h) THEN FALSE
      ELSE IF ~isFinite(w) \/ ~isFinite(h)
      THEN \* Infinity * 0 is NaN; otherwise the product is +-Infinity
           FSign(w) * FSign(h) < 0
      ELSE IF IntSign(w.v) * IntSign(h.v) < 0 THEN TRUE
      ELSE BigLt(BigMul(BigFromInt(IntAbs(w.v)), BigFromInt(IntAbs(h.v))),
                 MIN_BOUNDING_BOX_AREA)

\* spreadRatio < MIN_POINT_SPREAD_RATIO && maxSpread > 0
SpreadTooNarrow(boundingBox) ==
  LET maxSpread == FMax(boundingBox.width, boundingBox.height)
      minSpread == FMin(boundingBox.width, boundingBox.height)
  IN  IF isNaN(maxSpread) THEN FALSE
      ELSE IF ~FGt(maxSpread, Fin(0)) THEN FALSE
      ELSE IF ~isFinite(maxSpread)
      THEN isFinite(minSpread)  \* finite / Infinity = 0; Infinity / Infinity = NaN
      ELSE IF ~isFinite(minSpread) THEN TRUE  \* -Infinity / finite
      ELSE IF minSpread.v < 0 THEN TRUE
      ELSE BigLt(BigMulSmall(BigFromInt(minSpread.v), MIN_POINT_SPREAD_RATIO_DEN),
                 BigFromInt(maxSpread.v))

uniqueCount(points) ==
  Cardinality({hashPoint(points[i].x, points[i].z, POINT_TOLERANCE) :
                 i \in 1..Len(points)})

Valid == [type |-> "valid", reason |-> ""]
Invalid(reason) == [type |-> "invalid", reason |-> reason]

validatePointSetGeometry(points, boundingBox) ==
  IF Len(points) < 3 THEN Invalid("Insufficient points")
  ELSE IF AreaTooSmall(boundingBox) THEN Invalid("Bounding box area too small")
  ELSE IF SpreadTooNarrow(boundingBox) THEN Invalid("Point spread too narrow")
  \* diversityRatio < 0.5 && points.length > 10
  ELSE IF 2 * uniqueCount(points) < Len(points) /\ Len(points) > 10
  THEN Invalid("Low geometric diversity")
  ELSE Valid

\* ------------------------------------------------------------------------
\* 1 / 0.0001: the offset is a ten-thousandth of a bounding-box side
COLLINEARITY_OFFSET_DEN == 10000

applyCollinearityOffset(points, boundingBox) ==
  LET offsetX == FScaleDown(boundingBox.width, COLLINEARITY_OFFSET_DEN)
      offsetZ == FScaleDown(boundingBox.height, COLLINEARITY_OFFSET_DEN)
      isHorizontalLine == FLt(FAbs(boundingBox.width), Fin(POINT_TOLERANCE))
      isVerticalLine == FLt(FAbs(boundingBox.height), Fin(POINT_TOLERANCE))
  IN  [i \in 1..Len(points) |->
        LET point == points[i]
            index == i - 1
            sx == IF index % 2 = 0 THEN 1 ELSE -1
            sz2 == IF index % 2 = 0 THEN 1 ELSE -1
            sz3 == IF index % 3 = 0 THEN 1 ELSE -1
        IN  IF isHorizontalLine
            THEN [point EXCEPT !.x = FAdd(point.x, FMulInt(offsetX, sx))]
            ELSE IF isVerticalLine
            THEN [point EXCEPT !.z = FAdd(point.z, FMulInt(offsetZ, sz2))]
            ELSE [point EXCEPT !.x = FAdd(point.x, FMulInt(offsetX, sx)),
                               !.z = FAdd(point.z, FMulInt(offsetZ, sz3))]]

\* ------------------------------------------------------------------------
\* DownsampleStrategy
\* a None strategy that does not count the points
StrategyNoneUncounted(pointCount) == [type |-> "none", pointCount |-> 0]

StrategyNone(pointCount) == [type |-> "none", pointCount |-> pointCount]

StrategyGrid(pointCount, gridSize, originalCount) ==
  [type |-> "grid", pointCount |-> pointCount, gridSize |-> gridSize,
   originalCount |-> originalCount]

\* ratio is kept in hundredths (0.5 is 50)
StrategyProgressive(pointCount, ratio, originalCount, attempt) ==
  [type |-> "progressive", pointCount |-> pointCount, ratio |-> ratio,
   originalCount |-> originalCount, attempt |-> attempt]

\* Math.ceil(Math.sqrt(n)) for a natural n
CeilSqrt(n) == CHOOSE g \in 0..n : g * g >= n /\ (g = 0 \/ (g - 1) * (g - 1) < n)

\* Math.max(3, Math.floor(targetCount * (1 + aspectRatio * 0.5))) with
\* aspectRatio = maxSpread > 0 ? minSpread / maxSpread : 1
adjustedTargetCount(boundingBox, targetCount) ==
  LET maxSpread == FMax(boundingBox.width, boundingBox.height)
      minSpread == FMin(boundingBox.width, boundingBox.height)
  IN  IF ~FGt(maxSpread, Fin(0))
      THEN Fin(IntMax(3, (3 * targetCount) \div 2))
      ELSE IF ~isFinite(maxSpread)
      THEN (IF isFinite(minSpread) THEN Fin(IntMax(3, targetCount)) ELSE NaN)
      ELSE IF ~isFinite(minSpread) THEN Fin(3)
      ELSE Fin(IntMax(3, (targetCount * (2 * maxSpread.v + minSpread.v))
                           \div (2 * maxSpread.v)))

\* Math.ceil(Math.sqrt(adjustedTargetCount))
gridSizeFor(boundingBox, targetCount) ==
  The({ IF isNaN(adjusted) THEN NaN ELSE Fin(CeilSqrt(adjusted.v)) :
        adjusted \in { adjustedTargetCount(boundingBox, targetCount) } })

\* Math.floor((c - minC) / cellSide), cellSide = side > 0 ? side / gridSize : 1
\* (1 is 2e10 units, above every finite value of the model)
CellIndex(c, minC, side, gridSize) ==
  LET d == FSub(c, minC)
  IN  IF FGt(side, Fin(0))
      THEN IF isNaN(gridSize) THEN NaN
           ELSE IF ~isFinite(side)
           THEN (IF isFinite(d) THEN Fin(0) ELSE NaN)
           ELSE IF isFinite(d) THEN Fin((d.v * gridSize.v) \div side.v) ELSE d
      ELSE IF isFinite(d) THEN Fin(IF d.v >= 0 THEN 0 ELSE -1) ELSE d

\* gridMap as the sequence of its entries [key, points] in insertion order
RECURSIVE GridMapLoop(_, _, _, _, _)
GridMapLoop(points, boundingBox, gridSize, i, gridMap) ==
  IF i > Len(points) THEN gridMap
  ELSE
    LET point == points[i]
        cellKey == << CellIndex(point.x, boundingBox.minX, boundingBox.width, gridSize),
                      CellIndex(point.z, boundingBox.minZ, boundingBox.height, gridSize) >>
    IN  The({ GridMapLoop(points, boundingBox, gridSize, i + 1, next) :
              next \in {
                IF \E c \in 1..Len(gridMap) : gridMap[c].key = cellKey
                THEN [c \in 1..Len(gridMap) |->
                       IF gridMap[c].key = cellKey
                       THEN [gridMap[c] EXCEPT !.points = Append(@, point)]
                       ELSE gridMap[c]]
                ELSE Append(gridMap, [key |-> cellKey, points |-> << point >>]) } })

\* the first pass recording the originalIndex of the first point of the cell
RECURSIVE RepresentativeLoopIndexOfFirst(_, _, _)
RepresentativeLoopIndexOfFirst(gridMap, c, acc) ==
  IF c > Len(gridMap) THEN acc
  ELSE
    LET cellPoints == gridMap[c].points
        pointKey == hashPoint(cellPoints[1].x, cellPoints[1].z, POINT_TOLERANCE)
        selectedPoint == cellPoints[(Len(cellPoints) \div 2) + 1]
    IN  The({ RepresentativeLoopIndexOfFirst(gridMap, c + 1, next) :
              next \in {
                IF pointKey \notin acc.usedPoints
                THEN [points |-> Append(acc.points, selectedPoint),
                      originalIndices |->
                        Append(acc.originalIndices, cellPoints[1].originalIndex),
                      usedPoints |-> acc.usedPoints \cup {pointKey}]
                ELSE acc } })

\* the first pass over the cells: one representative per cell
RECURSIVE RepresentativeLoop(_, _, _)
RepresentativeLoop(gridMap, c, acc) ==
  IF c > Len(gridMap) THEN acc
  ELSE
    LET cellPoints == gridMap[c].points
        pointKey == hashPoint(cellPoints[1].x, cellPoints[1].z, POINT_TOLERANCE)
        selectedPoint == cellPoints[(Len(cellPoints) \div 2) + 1]
    IN  The({ RepresentativeLoop(gridMap, c + 1, next) :
              next \in {
                IF pointKey \notin acc.usedPoints
                THEN [points |-> Append(acc.points, selectedPoint),
                      originalIndices |->
                        Append(acc.originalIndices, selectedPoint.originalIndex),
                      usedPoints |-> acc.usedPoints \cup {pointKey}]
                ELSE acc } })

\* the inner loop of the second pass: j = 0, step, 2 * step, ... in one cell
RECURSIVE EnhancedCellLoop(_, _, _, _)
EnhancedCellLoop(cellPoints, j, step, acc) ==
  IF j >= Len(cellPoints) THEN acc
  ELSE
    LET point == cellPoints[j + 1]
        pointKey == hashPoint(point.x, point.z, POINT_TOLERANCE)
    IN  The({ EnhancedCellLoop(cellPoints, j + step, step, next) :
              next \in {
                IF pointKey \notin acc.usedPoints
                THEN [points |-> Append(acc.points, point),
                      originalIndices |-> Append(acc.originalIndices, point.originalIndex),
                      usedPoints |-> acc.usedPoints \cup {pointKey}]
                ELSE acc } })

RECURSIVE EnhancedLoop(_, _, _, _)
EnhancedLoop(gridMap, c, minPointsPerCell, acc) ==
  IF c > Len(gridMap) THEN acc
  ELSE
    LET cellPoints == gridMap[c].points
        sampleCount == IntMin(minPointsPerCell, Len(cellPoints))
        step == IntMax(1, Len(cellPoints) \div sampleCount)
    IN  The({ EnhancedLoop(gridMap, c + 1, minPointsPerCell, next) :
              next \in { EnhancedCellLoop(cellPoints, 0, step, acc) } })

\* lines 490-540 of downsamplePoints: the result of the first pass over the
\* cells (first), or that of the second pass when the first is degenerate
gridResult(points, boundingBox, gridSize, gridMap, first) ==
  LET result == [points |-> first.points,
                 originalIndices |-> first.originalIndices,
                 strategy |-> StrategyGrid(Len(first.points), gridSize, Len(points))]
      \* Math.max(1, Math.floor(points.length / (gridSize * gridSize)))
      minPointsPerCell ==
        IF isNaN(gridSize) THEN NaN
        ELSE Fin(IntMax(1, Len(points) \div (gridSize.v * gridSize.v)))
  IN  IF /\ validatePointSetGeometry(first.points, boundingBox).type = "invalid"
         /\ Len(first.points) >= 3
         /\ FGt(minPointsPerCell, Fin(1))
      THEN The({ IF Len(enhanced.points) >= 3
                 THEN [points |-> enhanced.points,
                       originalIndices |-> enhanced.originalIndices,
                       strategy |->
                         StrategyGrid(Len(enhanced.points), gridSize, Len(points))]
                 ELSE result :
                 enhanced \in { EnhancedLoop(gridMap, 1, minPointsPerCell.v,
                                  [points |-> << >>, originalIndices |-> << >>,
                                   usedPoints |-> first.usedPoints]) } })
      ELSE result

downsamplePoints(points, boundingBox, targetCount) ==
  IF Len(points) <= targetCount
  THEN [points |-> points,
        originalIndices |-> [i \in 1..Len(points) |-> points[i].originalIndex],
        strategy |-> StrategyNone(Len(points))]
  ELSE
    The({ The({ The({ gridResult(points, boundingBox, gridSize, gridMap, first) :
                      first \in { RepresentativeLoop(gridMap, 1,
                                    [points |-> << >>, originalIndices |-> << >>,
                                     usedPoints |-> {}]) } }) :
                gridMap \in { GridMapLoop(points, boundingBox, gridSize, 1, << >>) } }) :
          gridSize \in { gridSizeFor(boundingBox, targetCount) } })

\* the ratios with one more at the end
progressiveRatiosWithSixth == << 50, 25, 10, 5, 1, 1 >>

\* ------------------------------------------------------------------------
\* const progressiveRatios = [0.5, 0.25, 0.1, 0.05, 0.01], in hundredths
progressiveRatios == << 50, 25, 10, 5, 1 >>

Null == [type |-> "null"]

\* attempt is the 0-based index into ratios
downsamplePointsProgressive(points, boundingBox, ratios, attempt) ==
  IF attempt >= Len(ratios) THEN Null
  ELSE
    LET ratio == ratios[attempt + 1]
        targetCount == IntMax(3, (Len(points) * ratio) \div 100)
    IN  The({ IF downsampled.strategy.type = "grid"
              THEN [downsampled EXCEPT !.strategy =
                      StrategyProgressive(downsampled.strategy.pointCount, ratio,
                                          downsampled.strategy.originalCount, attempt)]
              ELSE downsampled :
              downsampled \in { downsamplePoints(points, boundingBox, targetCount) } })

\* ------------------------------------------------------------------------
\* Math.cos and Math.sin of (i * 137.508 + attempts * 42.0) degrees, in
\* ten-thousandths, for the point index i = row - 1 (0..7) and
\* attempts = column - 1 (0..9)
CosTable ==
  << << 10000, 7431, 1045, -5878, -9781, -8660, -3090, 4067, 9135, 9511 >>,
     << -7374, -10000, -7489, -1131, 5808, 9763, 8703, 3172, -3989, -9100 >>,
     << 874, 7315, 9999, 7545, 1216, -5738, -9744, -8745, -3253, 3910 >>,
     << 6084, -789, -7257, -9997, -7601, -1301, 5668, 9725, 8786, 3334 >>,
     << -9847, -6152, 703, 7197, 9994, 7657, 1386, -5597, -9704, -8827 >>,
     << 8438, 9862, 6220, -617, -7137, -9991, -7712, -1471, 5525, 9683 >>,
     << -2596, -8391, -9876, -6287, 532, 7077, 9987, 7766, 1556, -5453 >>,
     << -4609, 2513, 8344, 9889, 6353, -446, -7016, -9982, -7820, -1641 >> >>

SinTable ==
  << << 0, 6691, 9945, 8090, 2079, -5000, -9511, -9135, -4067, 3090 >>,
     << 6755, 86, -6627, -9936, -8140, -2163, 4925, 9484, 9170, 4146 >>,
     << -9962, -6818, -172, 6563, 9926, 8190, 2247, -4851, -9456, -9204 >>,
     << 7936, 9969, 6881, 258, -6498, -9915, -8239, -2330, 4775, 9428 >>,
     << -1742, -7884, -9975, -6943, -343, 6432, 9903, 8287, 2414, -4700 >>,
     << -5367, 1657, 7830, 9981, 7004, 429, -6366, -9891, -8335, -2497 >>,
     << 9657, 5439, -1573, -7777, -9986, -7065, -515, 6300, 9878, 8382 >>,
     << -8875, -9679, -5511, 1488, 7722, 9990, 7126, 601, -6233, -9864 >> >>

\* point + Math.cos(angle) * radius (trig is cos or sin in ten-thousandths),
\* radius = radius10 / 10 units, rounded down to a whole unit
Perturbed(coordinate, trig, radius10) ==
  IF isNaN(radius10) THEN NaN
  ELSE IF ~isFinite(radius10)
  THEN (IF trig = 0 THEN NaN ELSE FAdd(coordinate, FMulInt(radius10, trig)))
  ELSE IF radius10.v % 10 = 0
  THEN FAdd(coordinate, Fin((trig * (radius10.v \div 10)) \div 10000))
  ELSE FAdd(coordinate, Fin((trig * radius10.v) \div 100000))

\* the while loop of ensureNonDegeneratePoints for point i (0-based) from
\* the given attempts on; yields the final x, z, attempts and usedPositions
RECURSIVE PerturbLoop(_, _, _, _, _, _, _)
PerturbLoop(point, i, x, z, attempts, perturbationScale, usedPositions) ==
  IF attempts >= 10
  THEN [x |-> x, z |-> z, attempts |-> attempts, usedPositions |-> usedPositions]
  ELSE
    LET key == hashPoint(x, z, POINT_TOLERANCE)
        \* perturbationScale * (1 + attempts * 0.1), in tenths of a unit
        radius10 == FMulInt(perturbationScale, 10 + attempts)
    IN  IF key \notin usedPositions
        THEN [x |-> x, z |-> z, attempts |-> attempts,
              usedPositions |-> usedPositions \cup {key}]
        ELSE PerturbLoop(point, i,
               Perturbed(point.x, CosTable[i + 1][attempts + 1], radius10),
               Perturbed(point.z, SinTable[i + 1][attempts + 1], radius10),
               attempts + 1, perturbationScale, usedPositions)

\* the for loop of ensureNonDegeneratePoints from point i (0-based) on
RECURSIVE PerturbAll(_, _, _, _, _)
PerturbAll(points, i, perturbationScale, usedPositions, perturbedPoints) ==
  IF i >= Len(points) THEN perturbedPoints
  ELSE
    LET point == points[i + 1]
        minPerturbation == Fin(POINT_TOLERANCE * 10)
        radius10 == FMulInt(FMax(perturbationScale, minPerturbation), 10)
    IN  The({ PerturbAll(points, i + 1, perturbationScale, r.usedPositions,
                Append(perturbedPoints,
                  [point EXCEPT
                     !.x = IF r.attempts >= 10
                           THEN Perturbed(point.x, CosTable[i + 1][1], radius10)
                           ELSE r.x,
                     !.z = IF r.attempts >= 10
                           THEN Perturbed(point.z, SinTable[i + 1][1], radius10)
                           ELSE r.z])) :
              r \in { PerturbLoop(point, i, point.x, point.z, 0,
                                  perturbationScale, usedPositions) } })

\* Math.min(...values) / Math.max(...values): NaN as soon as one value is NaN
RECURSIVE MathMin(_)
MathMin(values) ==
  IF values = << >> THEN PosInf ELSE FMin(Head(values), MathMin(Tail(values)))

RECURSIVE MathMax(_)
MathMax(values) ==
  IF values = << >> THEN NegInf ELSE FMax(Head(values), MathMax(Tail(values)))

\* lines 603-613: the bounding box of the perturbed points
boundingBoxOf(points) ==
  The({ BoundingBox(minX, maxX, minZ, maxZ) :
        minX \in { MathMin([i \in 1..Len(points) |-> points[i].x]) },
        maxX \in { MathMax([i \in 1..Len(points) |-> points[i].x]) },
        minZ \in { MathMin([i \in 1..Len(points) |-> points[i].z]) },
        maxZ \in { MathMax([i \in 1..Len(points) |-> points[i].z]) } })

ensureNonDegeneratePoints(points, boundingBox) ==
  IF Len(points) < 3 THEN points
  ELSE IF /\ ~checkCollinearity(points)
          /\ validatePointSetGeometry(points, boundingBox).type = "valid"
  THEN points
  ELSE
    LET maxSpread == FMax(boundingBox.width, boundingBox.height)
        perturbationScale == FScaleDown(maxSpread, 10000)
    IN  The({ The({ IF validatePointSetGeometry(perturbedPoints,
                                                perturbedBoundingBox).type = "valid"
                    THEN perturbedPoints ELSE points :
                    perturbedBoundingBox \in { boundingBoxOf(perturbedPoints) } }) :
              perturbedPoints \in { PerturbAll(points, 0, perturbationScale, {}, << >>) } })

\* ------------------------------------------------------------------------
\* the points of the loop of validateCoordinates that reach validPoints.push
RECURSIVE FinitePoints(_, _)
FinitePoints(points, i) ==
  IF i > Len(points) THEN << >>
  ELSE IF isFinite(points[i].x) /\ isFinite(points[i].z)
  THEN << points[i] >> \o FinitePoints(points, i + 1)
  ELSE FinitePoints(points, i + 1)

validateCoordinatesNaNInXOnly(points) ==
  LET nanAt == {i \in 1..Len(points) : isNaN(points[i].x)}
      infAt == {i \in 1..Len(points) :
                  /\ i \notin nanAt
                  /\ (~isFinite(points[i].x) \/ ~isFinite(points[i].z))}
      invalidCount == Cardinality(nanAt) + Cardinality(infAt)
      hasNaN == nanAt # {}
      hasInfinity == infAt # {}
      validPoints == FinitePoints(points, 1)
  IN  IF invalidCount > 0
      THEN [type |-> "invalid",
            reason |-> IF hasNaN /\ hasInfinity THEN "NaN and Infinity values found"
                       ELSE IF hasNaN THEN "NaN values found"
                       ELSE "Infinity values found",
            invalidCount |-> invalidCount,
            validPoints |-> validPoints]
      ELSE [type |-> "valid", validPoints |-> points]

validateCoordinates(points) ==
  LET nanAt == {i \in 1..Len(points) : isNaN(points[i].x) \/ isNaN(points[i].z)}
      infAt == {i \in 1..Len(points) :
                  /\ i \notin nanAt
                  /\ (~isFinite(points[i].x) \/ ~isFinite(points[i].z))}
      invalidCount == Cardinality(nanAt) + Cardinality(infAt)
      hasNaN == nanAt # {}
      hasInfinity == infAt # {}
      validPoints == FinitePoints(points, 1)
  IN  IF invalidCount > 0
      THEN [type |-> "invalid",
            reason |-> IF hasNaN /\ hasInfinity THEN "NaN and Infinity values found"
                       ELSE IF hasNaN THEN "NaN values found"
                       ELSE "Infinity values found",
            invalidCount |-> invalidCount,
            validPoints |-> validPoints]
      ELSE [type |-> "valid", validPoints |-> points]

\* ------------------------------------------------------------------------
\* normalizeCoordinates.  A normalized coordinate (x - centerX) * scale is
\* kept as the pair of the centred value 2 * (x - centerX), a whole number
\* of half units, and the common scale, an exact ratio num / den of Big
\* naturals (or -Infinity); coords holds the centred values after the snap
\* to 0 and the replacement of a non-finite result by (0, 0).
Ratio(num, den) == [k |-> "ratio", num |-> num, den |-> den]
ScaleNegInf == [k |-> "neginf", num |-> << >>, den |-> << >>]

baseScale(maxSpread) ==
  \* maxSpread > 1e6: no finite value of the model is that large
  IF isNaN(maxSpread) THEN Ratio(<< 1 >>, << 1 >>)
  ELSE IF ~isFinite(maxSpread)
  THEN (IF maxSpread.v = 1 THEN Ratio(<< 1 >>, BigFromInt(1000000))
        ELSE Ratio(<< 1 >>, << 1 >>))
  \* maxSpread < 1e-3 && maxSpread > 0
  ELSE IF maxSpread.v < 1000 * POINT_TOLERANCE /\ maxSpread.v > 0
  THEN Ratio(BigFromInt(1000), << 1 >>)
  ELSE Ratio(<< 1 >>, << 1 >>)

\* scale after "if (aspectRatio < 1e-6 && maxSpread > 0) scale *= 1 + aspectRatio"
aspectScale(scale, maxSpread, minSpread) ==
  IF isNaN(maxSpread) \/ ~FGt(maxSpread, Fin(0)) THEN scale
  ELSE IF ~isFinite(maxSpread) THEN scale  \* the ratio is 0 or NaN
  ELSE IF ~isFinite(minSpread) THEN ScaleNegInf
  ELSE IF BigLt(BigMul(BigFromInt(IntAbs(minSpread.v)), BigFromInt(1000000)),
                BigFromInt(maxSpread.v))
  THEN Ratio(BigMul(scale.num, BigFromInt(maxSpread.v + minSpread.v)),
             BigMul(scale.den, BigFromInt(maxSpread.v)))
  ELSE scale

\* normalizedPoint with a snap that takes every coordinate for zero
normalizedPointCollapsed(point, range, scale) == << 0, 0 >>

\* one point of the loop of normalizeCoordinates
normalizedPoint(point, range, scale) ==
  LET dx == FSub(FMulInt(point.x, 2), range.centerX2)
      dz == FSub(FMulInt(point.z, 2), range.centerZ2)
      \* Math.abs(d / 2 * scale) < 1e-10, 1e-10 being 4 half units
      snap(d) == IF BigLt(BigMul(BigFromInt(IntAbs(d)), scale.num),
                          BigMulSmall(scale.den, 4))
                 THEN 0 ELSE d
  IN  IF scale.k = "neginf" \/ ~isFinite(dx) \/ ~isFinite(dz)
      THEN << 0, 0 >>
      ELSE << snap(dx.v), snap(dz.v) >>

SeqMax(s) == CHOOSE m \in {s[i] : i \in 1..Len(s)} : \A i \in 1..Len(s) : s[i] <= m
SeqMin(s) == CHOOSE m \in {s[i] : i \in 1..Len(s)} : \A i \in 1..Len(s) : s[i] >= m

\* lines 205-214: the spread of the centred values, in half units
normalizedSpread(coords) ==
  IF Len(coords) = 0 THEN 0
  ELSE The({ IntMax(SeqMax(xs) - SeqMin(xs), SeqMax(zs) - SeqMin(zs)) :
             xs \in { [i \in 1..Len(coords) |-> coords[i][1]] },
             zs \in { [i \in 1..Len(coords) |-> coords[i][2]] } })

\* lines 215-222: scale after "if (normalizedSpread < POINT_TOLERANCE &&
\* normalizedSpread > 0) scale *= adjustmentScale"
adjustedScale(scale, spread) ==
  IF /\ scale.k = "ratio"
     /\ spread > 0
     /\ BigLt(BigMul(BigFromInt(spread), scale.num),
              BigMul(BigFromInt(2 * POINT_TOLERANCE), scale.den))
  THEN Ratio(BigFromInt(2 * POINT_TOLERANCE), BigFromInt(spread))
  ELSE scale

normalizeCoordinates(points, range) ==
  LET maxSpread == FMax(range.spreadX, range.spreadZ)
      minSpread == FMin(range.spreadX, range.spreadZ)
  IN  The({ The({ The({ [coords |-> coords,
                         transform |-> [offsetX2 |-> range.centerX2,
                                        offsetZ2 |-> range.centerZ2,
                                        scaleX |-> finalScale,
                                        scaleZ |-> finalScale]] :
                        finalScale \in { adjustedScale(scale, normalizedSpread(coords)) } }) :
                  coords \in { [i \in 1..Len(points) |->
                                 normalizedPoint(points[i], range, scale)] } }) :
            scale \in { aspectScale(baseScale(maxSpread), maxSpread, minSpread) } })

\* ------------------------------------------------------------------------
\* TriangulationResult
Success(triangles, pointCount) ==
  [type |-> "success", triangles |-> triangles, pointCount |-> pointCount]
Empty(pointCount, reason) ==
  [type |-> "empty", pointCount |-> pointCount, reason |-> reason]
Error(message, pointCount) ==
  [type |-> "error", message |-> message, pointCount |-> pointCount]

\* The object Delaunator.from returns: triangles is absent, a Uint32Array
\* ("u32") or something else ("other"); halfedges is the length of the
\* half-edge array, or -1 when there is none.
DelaunatorObject(kind, data, halfedges) ==
  [triangles |-> [kind |-> kind, data |-> data], halfedges |-> halfedges]

\* validateDelaunatorResult without the loop that compares every index with
\* pointCount (lines 769-778)
validateDelaunatorResultUnchecked(result, pointCount) ==
  LET triangles == result.triangles.data
  IN  IF result.triangles.kind = "absent"
      THEN Empty(pointCount, "triangles property is undefined or null")
      ELSE IF result.triangles.kind # "u32"
      THEN Error("triangles is not a Uint32Array", pointCount)
      ELSE IF Len(triangles) = 0
      THEN Empty(pointCount, "triangles array length is zero")
      ELSE IF Len(triangles) % 3 # 0
      THEN Error("Invalid triangles array length", pointCount)
      ELSE IF result.halfedges # -1 /\ result.halfedges # Len(triangles)
      THEN Error("Halfedges length does not match triangles length", pointCount)
      ELSE Success(triangles, pointCount)

validateDelaunatorResult(result, pointCount) ==
  LET triangles == result.triangles.data
  IN  IF result.triangles.kind = "absent"
      THEN Empty(pointCount, "triangles property is undefined or null")
      ELSE IF result.triangles.kind # "u32"
      THEN Error("triangles is not a Uint32Array", pointCount)
      ELSE IF Len(triangles) = 0
      THEN Empty(pointCount, "triangles array length is zero")
      ELSE IF Len(triangles) % 3 # 0
      THEN Error("Invalid triangles array length", pointCount)
      ELSE IF Len(triangles) \div 3 = 0
      THEN Empty(pointCount, "triangle count is zero")
      ELSE IF \E i \in 1..Len(triangles) : triangles[i] >= pointCount
      THEN Error("Triangle index exceeds point count", pointCount)
      ELSE IF result.halfedges # -1 /\ result.halfedges # Len(triangles)
      THEN Error("Halfedges length does not match triangles length", pointCount)
      ELSE Success(triangles, pointCount)

\* ------------------------------------------------------------------------
fallbackCorners(boundingBox) ==
  << ValidatedPoint(boundingBox.minX, boundingBox.minZ, -1, Fin(0)),
     ValidatedPoint(boundingBox.maxX, boundingBox.minZ, -1, Fin(0)),
     ValidatedPoint(boundingBox.maxX, boundingBox.maxZ, -1, Fin(0)),
     ValidatedPoint(boundingBox.minX, boundingBox.maxZ, -1, Fin(0)) >>

combinedPoints(points, boundingBox) == points \o fallbackCorners(boundingBox)

\* the filter with || in place of &&: a triangle stays when one of its
\* indices is not a corner
RECURSIVE filteredTrianglesAnyIndex(_, _, _)
filteredTrianglesAnyIndex(triangles, i, pointCount) ==
  IF i + 2 > Len(triangles) THEN << >>
  ELSE
    LET i0 == triangles[i]
        i1 == triangles[i + 1]
        i2 == triangles[i + 2]
    IN  (IF i0 < pointCount \/ i1 < pointCount \/ i2 < pointCount
         THEN << i0, i1, i2 >> ELSE << >>)
        \o filteredTrianglesAnyIndex(triangles, i + 3, pointCount)

\* the loop over validation.triangles that keeps the triangles without a corner
RECURSIVE filteredTriangles(_, _, _)
filteredTriangles(triangles, i, pointCount) ==
  IF i + 2 > Len(triangles) THEN << >>
  ELSE
    LET i0 == triangles[i]
        i1 == triangles[i + 1]
        i2 == triangles[i + 2]
    IN  (IF i0 < pointCount /\ i1 < pointCount /\ i2 < pointCount
         THEN << i0, i1, i2 >> ELSE << >>)
        \o filteredTriangles(triangles, i + 3, pointCount)

\* outcome is what Delaunator.from does on the normalized combined points:
\* [threw |-> TRUE] or [threw |-> FALSE, result |-> the object returned]
createFallbackTriangulation(points, boundingBox, outcome) ==
  IF Len(points) < 3
  THEN Error("Insufficient points for fallback triangulation", Len(points))
  ELSE IF outcome.threw
  THEN Error("Fallback triangulation failed to create Delaunay triangulation",
             Len(combinedPoints(points, boundingBox)))
  ELSE The({ IF validation.type = "success"
                /\ Len(filteredTriangles(validation.triangles, 1, Len(points))) >= 3
             THEN Success(filteredTriangles(validation.triangles, 1, Len(points)),
                          Len(points))
             ELSE Error("Fallback triangulation produced no valid triangles",
                        Len(points)) :
             validation \in { validateDelaunatorResult(outcome.result,
                                Len(combinedPoints(points, boundingBox))) } })

\* ------------------------------------------------------------------------
\* The Delaunator primitive is a library outside the repository: what it
\* returns (or that it throws) is chosen by the environment among the
\* objects below, for the m points it is given.
TriangleArrays(m) ==
  { << >>,
    << 0, 1, 2 >>,
    << 0, 2, 1, 1, 2, IntMax(0, m - 1) >>,
    << 0, 1, m >>,
    << IntMax(0, m - 3), IntMax(0, m - 2), IntMax(0, m - 1) >> }

DelaunatorObjects(m) ==
  { DelaunatorObject("u32", t, Len(t)) : t \in TriangleArrays(m) }

\* three of the normalized points span a triangle of non-zero area
NonCollinear(coords) ==
  \E i, j, k \in 1..Len(coords) :
    /\ i < j /\ j < k
    /\ BigAbsCross(coords[j][1] - coords[i][1], coords[k][2] - coords[i][2],
                   coords[j][2] - coords[i][2], coords[k][1] - coords[i][1]) # << >>

\* Math.fround on the unit count: 24 significant bits, ties to even
RECURSIVE FroundStep(_, _)
FroundStep(n, step) ==
  IF n < 16777216 * step
  THEN LET q == n \div step
           r == n % step
       IN  IF 2 * r < step \/ (2 * r = step /\ q % 2 = 0)
           THEN q * step ELSE (q + 1) * step
  ELSE FroundStep(n, 2 * step)

Float32(a) ==
  IF a.k # "fin" THEN a
  ELSE Fin(IntSign(a.v) * FroundStep(IntAbs(a.v), 1))

\* ------------------------------------------------------------------------
\* Bounds of the model
\* the largest point count of an input point cloud
MaxCount == 4

\* MAX_POINTS_FOR_TRIANGULATION (100000 in gsMeshGenerator.ts line 27),
\* scaled down so that an input of the model can exceed it
MAX_POINTS_FOR_TRIANGULATION == 3

\* 1e-3 in units: the side of a bounding box of area 1e-6
Side == 1000 * POINT_TOLERANCE

\* The points an input buffer is built from, as (x, y, z)
CandidatePoints ==
  << << Fin(0), Fin(1), Fin(0) >>,
     << Fin(POINT_TOLERANCE \div 2), Fin(2), Fin(0) >>,
     << Fin(Side), Fin(3), Fin(0) >>,
     << Fin(Side), Fin(4), Fin(Side) >>,
     << Fin(Side \div 2), Fin(5), Fin(Side \div 2) >>,
     << Fin(2 * POINT_TOLERANCE), Fin(6), Fin(0) >>,
     << NaN, Fin(7), Fin(0) >>,
     << NaN, Fin(8), Fin(3 * Side) >>,
     << Fin(0), Fin(9), Fin(2 * POINT_TOLERANCE) >> >>

\* the flat buffer of the points chosen by c (a function 1..n -> candidate index)
FlatBuffer(c, n) ==
  [i \in 1..(3 * n) |-> CandidatePoints[c[((i - 1) \div 3) + 1]][((i - 1) % 3) + 1]]

VARIABLES
  positions,            \* pointCloud.positions, the flat xyz buffer
  count,                \* pointCloud.count
  pc,                   \* the place generateNavigableMesh has reached
  validationResult,
  initialPointCount,
  isCollinear,
  currentPoints,
  currentStrategy,
  attemptedStrategies,
  triangulationResult,
  attemptCount,
  thrown,               \* the Error thrown, or Null
  mesh,                 \* the mesh returned, or Null
  scene,                \* the meshes of the scene
  hist,                 \* what the run has done so far
  applied,              \* a function applied on its own: its arguments and result
  app                   \* the refs of the App component and its handlers in flight

vars == << positions, count, pc, validationResult, initialPointCount, isCollinear,
           currentPoints, currentStrategy, attemptedStrategies, triangulationResult,
           attemptCount, thrown, mesh, scene, hist, applied, app >>

\* the ways to choose n of the candidate points, and those that take
\* different points in the order of CandidatePoints
Choices(n) == [1..n -> 1..Len(CandidatePoints)]
OrderedChoices(n) == {c \in Choices(n) : \A i \in 1..(n - 1) : c[i] < c[i + 1]}

\* generateNavigableMesh is called with the points chosen by c
Called(n, c) ==
  /\ count = n
  /\ positions = FlatBuffer(c, n)
  /\ pc = "start"
  /\ validationResult = Null
  /\ initialPointCount = 0
  /\ isCollinear = FALSE
  /\ currentPoints = << >>
  /\ currentStrategy = Null
  /\ attemptedStrategies = << >>
  /\ triangulationResult = Null
  /\ attemptCount = 0
  /\ thrown = Null
  /\ mesh = Null
  /\ scene = << >>
  /\ hist = [collinearityChecks |-> 0,   \* calls of checkCollinearity (line 827, 836)
             downsamples |-> 0,          \* calls of downsamplePoints(Progressive)
             iterations |-> 0,           \* iterations of the retry loop
             triangulations |-> 0,       \* iterations that call Delaunator.from
             fallbacks |-> 0,            \* calls of createFallbackTriangulation
             progressive |-> << >>,      \* the arguments of each progressive call
             grid |-> Null,              \* the arguments and result of the grid downsampling
             fallback |-> Null,          \* the arguments and outcome of the fallback
             primitiveOk |-> TRUE]       \* Delaunator never failed a non-collinear set

Init ==
  /\ \E n \in 0..MaxCount : \E c \in Choices(n) : Called(n, c)
  /\ applied = Null
  /\ app = Null

OrderedInit ==
  /\ \E n \in 0..MaxCount : \E c \in OrderedChoices(n) : Called(n, c)
  /\ applied = Null
  /\ app = Null

Throw(error) ==
  /\ thrown' = error
  /\ pc' = "thrown"

\* lines 800-825
Sanitize ==
  /\ pc = "start"
  /\ IF count < 3
     THEN /\ Throw([message |-> "Point cloud must have at least 3 points for triangulation"])
          /\ UNCHANGED << validationResult, initialPointCount >>
     ELSE \E originalYCoords \in { [i \in 1..count |-> positions[(i - 1) * 3 + 2]] } :
          \E result \in { validateAndDeduplicatePoints(positions, count, originalYCoords) } :
            /\ validationResult' = result
            /\ initialPointCount' = Len(result.validatedPoints)
            /\ IF Len(result.validatedPoints) < 3
               THEN Throw([message |-> "After deduplication, too few unique points remain"])
               ELSE pc' = "collinearity" /\ UNCHANGED thrown
  /\ UNCHANGED << app, applied, positions, count, isCollinear, currentPoints, currentStrategy,
                  attemptedStrategies, triangulationResult, attemptCount, mesh, scene,
                  hist >>

\* lines 827-848
CheckCollinearity ==
  /\ pc = "collinearity"
  /\ \E first \in { checkCollinearity(validationResult.validatedPoints) } :
     \E offset \in { IF first
                     THEN applyCollinearityOffset(validationResult.validatedPoints,
                                                  validationResult.boundingBox)
                     ELSE validationResult.validatedPoints } :
     \E second \in { first /\ checkCollinearity(offset) } :
       /\ validationResult' = [validationResult EXCEPT !.validatedPoints = offset]
       /\ isCollinear' = second
       /\ hist' = [hist EXCEPT !.collinearityChecks = @ + (IF first THEN 2 ELSE 1)]
       /\ IF second
          THEN Throw([message |-> "Points are collinear and could not be corrected"])
          ELSE pc' = "geometry" /\ UNCHANGED thrown
  /\ UNCHANGED << app, applied, positions, count, initialPointCount, currentPoints, currentStrategy,
                  attemptedStrategies, triangulationResult, attemptCount, mesh, scene >>

\* the initial validation that trusts ensureNonDegeneratePoints: the error
\* is raised only for a set of fewer than 3 points left as it was
InitialGeometryTrustsPerturbation ==
  /\ pc = "geometry"
  /\ \E initialGeometryValidation \in
          { validatePointSetGeometry(validationResult.validatedPoints,
                                     validationResult.boundingBox) } :
     \E perturbed \in
          { IF initialGeometryValidation.type = "invalid"
            THEN ensureNonDegeneratePoints(validationResult.validatedPoints,
                                           validationResult.boundingBox)
            ELSE validationResult.validatedPoints } :
     \E postPerturbationValidation \in
          { validatePointSetGeometry(perturbed, validationResult.boundingBox) } :
       /\ currentPoints' = perturbed
       /\ currentStrategy' = StrategyNone(Len(validationResult.validatedPoints))
       /\ attemptedStrategies' = << >>
       /\ IF /\ initialGeometryValidation.type = "invalid"
             /\ postPerturbationValidation.type = "invalid"
             /\ perturbed = validationResult.validatedPoints
             /\ Len(perturbed) < 3
          THEN Throw([message |-> "Point set geometry validation failed",
                      reason |-> initialGeometryValidation.reason,
                      afterPerturbation |-> postPerturbationValidation.reason])
          ELSE pc' = "grid" /\ UNCHANGED thrown
  /\ UNCHANGED << app, applied, positions, count, validationResult, initialPointCount, isCollinear,
                  triangulationResult, attemptCount, mesh, scene, hist >>

\* lines 850-865
InitialGeometry ==
  /\ pc = "geometry"
  /\ \E initialGeometryValidation \in
          { validatePointSetGeometry(validationResult.validatedPoints,
                                     validationResult.boundingBox) } :
     \E perturbed \in
          { IF initialGeometryValidation.type = "invalid"
            THEN ensureNonDegeneratePoints(validationResult.validatedPoints,
                                           validationResult.boundingBox)
            ELSE validationResult.validatedPoints } :
     \E postPerturbationValidation \in
          { validatePointSetGeometry(perturbed, validationResult.boundingBox) } :
       /\ currentPoints' = perturbed
       /\ currentStrategy' = StrategyNone(Len(validationResult.validatedPoints))
       /\ attemptedStrategies' = << >>
       /\ IF /\ initialGeometryValidation.type = "invalid"
             /\ postPerturbationValidation.type = "invalid"
          THEN Throw([message |-> "Point set geometry validation failed",
                      reason |-> initialGeometryValidation.reason,
                      afterPerturbation |-> postPerturbationValidation.reason])
          ELSE pc' = "grid" /\ UNCHANGED thrown
  /\ UNCHANGED << app, applied, positions, count, validationResult, initialPointCount, isCollinear,
                  triangulationResult, attemptCount, mesh, scene, hist >>

\* lines 867-885
GridDownsample ==
  /\ pc = "grid"
  /\ IF Len(currentPoints) > MAX_POINTS_FOR_TRIANGULATION
     THEN \E downsampled \in
               { downsamplePoints(currentPoints, validationResult.boundingBox,
                                  MAX_POINTS_FOR_TRIANGULATION) } :
          \E downsampledGeometryValidation \in
               { validatePointSetGeometry(downsampled.points,
                                          validationResult.boundingBox) } :
            /\ currentPoints' =
                 IF downsampledGeometryValidation.type = "invalid"
                 THEN ensureNonDegeneratePoints(downsampled.points,
                                                validationResult.boundingBox)
                 ELSE downsampled.points
            /\ currentStrategy' = downsampled.strategy
            /\ attemptedStrategies' = Append(attemptedStrategies, downsampled.strategy)
            /\ hist' = [hist EXCEPT
                 !.downsamples = @ + 1,
                 !.grid = [points |-> currentPoints,
                           boundingBox |-> validationResult.boundingBox,
                           targetCount |-> MAX_POINTS_FOR_TRIANGULATION,
                           result |-> downsampled]]
     ELSE UNCHANGED << currentPoints, currentStrategy, attemptedStrategies, hist >>
  /\ triangulationResult' = Null
  /\ attemptCount' = 0
  /\ pc' = "loop"
  /\ UNCHANGED << app, applied, positions, count, validationResult, initialPointCount, isCollinear,
                  thrown, mesh, scene >>

\* a retry that samples the points of the attempt that failed
ProgressiveSourceCurrent(validation, points) == points

\* The point set a progressive retry samples from (lines 900, 928, 983, 1010)
ProgressiveSource(validation, points) == validation.validatedPoints

\* "if (attemptCount <= progressiveRatios.length) { const progressiveResult =
\* downsamplePointsProgressive(...) }", Null when the call is not made
progressiveResult(validation, points, attempts) ==
  IF attempts <= Len(progressiveRatios)
  THEN downsamplePointsProgressive(ProgressiveSource(validation, points),
                                   validation.boundingBox, progressiveRatios,
                                   attempts - 1)
  ELSE Null

\* the strategies pushed when a triangulation fails (lines 977-979, 1004-1006)
FailureStrategies(strategies, strategy, attempts) ==
  IF attempts = 0 THEN Append(strategies, strategy) ELSE strategies

\* the strategies pushed when the points cannot be triangulated at all
\* (lines 896-908, 924-936): the one in use, then the one of the retry
RetryStrategies(strategies, strategy, retry) ==
  IF retry = Null THEN Append(strategies, strategy)
  ELSE Append(Append(strategies, strategy), retry.strategy)

\* the record of one call of downsamplePointsProgressive, when it is made
ProgressiveCall(validation, points, attempts, result, recorded) ==
  IF attempts <= Len(progressiveRatios)
  THEN << [source |-> ProgressiveSource(validation, points),
           boundingBox |-> validation.boundingBox,
           points |-> result.points,
           attempt |-> attempts - 1,
           ratio |-> progressiveRatios[attempts],
           strategy |-> result.strategy,
           recorded |-> recorded] >>
  ELSE << >>

\* What Delaunator.from does in one iteration of the loop: it throws for all
\* three coordinate formats, or returns an object for the first that works
AllFormatsThrew == [threw |-> TRUE]
Returned(object) == [threw |-> FALSE, result |-> object]
DelaunatorOutcomes(m) == {AllFormatsThrew} \cup {Returned(o) : o \in DelaunatorObjects(m)}

\* the primitive succeeded if the points it was given are not collinear
Conforms(coords, outcome) ==
  NonCollinear(coords) =>
    /\ ~outcome.threw
    /\ validateDelaunatorResult(outcome.result, Len(coords)).type = "success"

\* the test of line 1025 without the comparison with 'success'
AfterLoopAlwaysFallback(result) == "fallback"

\* where the run goes when the loop is left (line 1025)
AfterLoop(result) ==
  IF result # Null /\ result.type = "success" THEN "assemble" ELSE "fallback"

\* lines 891-912: fewer than 3 points have finite coordinates
CoordinateFailure ==
  \E retry \in { progressiveResult(validationResult, currentPoints, attemptCount + 1) } :
  \E call \in { ProgressiveCall(validationResult, currentPoints, attemptCount + 1,
                                retry, TRUE) } :
    /\ triangulationResult' = Error("Coordinate validation failed", Len(currentPoints))
    /\ attemptedStrategies' =
         RetryStrategies(attemptedStrategies, currentStrategy, retry)
    /\ attemptCount' = attemptCount + 1
    /\ currentPoints' = IF retry # Null THEN retry.points ELSE currentPoints
    /\ currentStrategy' = IF retry # Null THEN retry.strategy ELSE currentStrategy
    /\ pc' = IF retry # Null THEN "loop"
             ELSE AfterLoop(Error("Coordinate validation failed", Len(currentPoints)))
    /\ hist' = [hist EXCEPT
         !.iterations = @ + 1,
         !.downsamples = @ + Len(call),
         !.progressive = @ \o call]

\* lines 933-937: the retry after a geometry validation that failed twice
GeometryRetry(conditioned, retry) ==
  \E call \in { ProgressiveCall(validationResult, conditioned, attemptCount + 1,
                                retry, TRUE) } :
    /\ attemptedStrategies' =
         RetryStrategies(attemptedStrategies, currentStrategy, retry)
    /\ attemptCount' = attemptCount + 1
    /\ currentPoints' = retry.points
    /\ currentStrategy' = retry.strategy
    /\ pc' = "loop"
    /\ hist' = [hist EXCEPT
         !.iterations = @ + 1,
         !.downsamples = @ + Len(call),
         !.progressive = @ \o call]
    /\ UNCHANGED triangulationResult

\* lines 943-1022: Delaunator.from is called on the normalized points, with
\* attemptCount and attemptedStrategies as they stand at line 943
Triangulate(conditioned, attempts, strategies) ==
  \E outcome \in DelaunatorOutcomes(Len(conditioned)) :
  \E coordRange \in { computeCoordinateRange(conditioned) } :
  \E normalized \in { normalizeCoordinates(conditioned, coordRange) } :
  \E validated \in
       { IF outcome.threw
         THEN Error("Delaunator.from() failed with all coordinate formats",
                    Len(conditioned))
         ELSE validateDelaunatorResult(outcome.result, Len(conditioned)) } :
  \E conforms \in { Conforms(normalized.coords, outcome) } :
    IF validated.type = "success"
    THEN /\ triangulationResult' = validated
         /\ currentPoints' = conditioned
         /\ attemptedStrategies' = strategies
         /\ attemptCount' = attempts
         /\ pc' = AfterLoop(validated)
         /\ hist' = [hist EXCEPT
              !.iterations = @ + 1,
              !.triangulations = @ + 1,
              !.primitiveOk = @ /\ conforms]
         /\ UNCHANGED currentStrategy
    ELSE \E retry \in { progressiveResult(validationResult, conditioned, attempts + 1) } :
         \E call \in { ProgressiveCall(validationResult, conditioned, attempts + 1,
                                       retry, FALSE) } :
           /\ triangulationResult' = validated
           /\ attemptedStrategies' =
                FailureStrategies(strategies, currentStrategy, attempts)
           /\ attemptCount' = attempts + 1
           /\ currentPoints' = IF retry # Null THEN retry.points ELSE conditioned
           /\ currentStrategy' = IF retry # Null THEN retry.strategy
                                 ELSE currentStrategy
           /\ pc' = IF retry # Null /\ attempts + 1 <= Len(progressiveRatios)
                    THEN "loop" ELSE AfterLoop(validated)
           /\ hist' = [hist EXCEPT
                !.iterations = @ + 1,
                !.triangulations = @ + 1,
                !.primitiveOk = @ /\ conforms,
                !.downsamples = @ + Len(call),
                !.progressive = @ \o call]

\* the loop with the retry of line 922 taken on every attempt
AttemptRetryOnEveryAttempt ==
  /\ pc = "loop"
  /\ attemptCount <= Len(progressiveRatios)
  /\ \E coordValidation \in { validateCoordinates(currentPoints) } :
       IF coordValidation.type = "invalid" /\ Len(coordValidation.validPoints) < 3
       THEN CoordinateFailure
       ELSE
         \E geometryValidation \in
              { validatePointSetGeometry(coordValidation.validPoints,
                                         validationResult.boundingBox) } :
         \E conditioned \in
              { IF geometryValidation.type = "invalid"
                THEN ensureNonDegeneratePoints(coordValidation.validPoints,
                                               validationResult.boundingBox)
                ELSE coordValidation.validPoints } :
         \E postPerturbationValidation \in
              { validatePointSetGeometry(conditioned, validationResult.boundingBox) } :
           IF /\ geometryValidation.type = "invalid"
              /\ postPerturbationValidation.type = "invalid"
           THEN \E retry \in { progressiveResult(validationResult, conditioned,
                                                 attemptCount + 1) } :
                  IF retry # Null
                  THEN GeometryRetry(conditioned, retry)
                  ELSE Triangulate(conditioned, attemptCount + 1,
                                   Append(attemptedStrategies, currentStrategy))
           ELSE Triangulate(conditioned, attemptCount, attemptedStrategies)
  /\ UNCHANGED << app, applied, positions, count, validationResult, initialPointCount, isCollinear,
                  thrown, mesh, scene >>

\* lines 887-1023, one iteration of the while loop
Attempt ==
  /\ pc = "loop"
  /\ attemptCount <= Len(progressiveRatios)
  /\ \E coordValidation \in { validateCoordinates(currentPoints) } :
       IF coordValidation.type = "invalid" /\ Len(coordValidation.validPoints) < 3
       THEN CoordinateFailure
       ELSE
         \E geometryValidation \in
              { validatePointSetGeometry(coordValidation.validPoints,
                                         validationResult.boundingBox) } :
         \E conditioned \in
              { IF geometryValidation.type = "invalid"
                THEN ensureNonDegeneratePoints(coordValidation.validPoints,
                                               validationResult.boundingBox)
                ELSE coordValidation.validPoints } :
         \E postPerturbationValidation \in
              { validatePointSetGeometry(conditioned, validationResult.boundingBox) } :
           IF /\ geometryValidation.type = "invalid"
              /\ postPerturbationValidation.type = "invalid"
              /\ attemptCount = 0
           THEN \E retry \in { progressiveResult(validationResult, conditioned,
                                                 attemptCount + 1) } :
                  IF retry # Null
                  THEN GeometryRetry(conditioned, retry)
                  ELSE Triangulate(conditioned, attemptCount + 1,
                                   Append(attemptedStrategies, currentStrategy))
           ELSE Triangulate(conditioned, attemptCount, attemptedStrategies)
  /\ UNCHANGED << app, applied, positions, count, validationResult, initialPointCount, isCollinear,
                  thrown, mesh, scene >>

\* lines 1030-1045: the strategies of the list, each distinct one once
RECURSIVE uniqueStrategies(_)
uniqueStrategies(strategies) ==
  IF strategies = << >> THEN << >>
  ELSE The({ IF \E i \in 1..Len(front) : front[i] = strategies[Len(strategies)]
             THEN front
             ELSE Append(front, strategies[Len(strategies)]) :
             front \in { uniqueStrategies(SubSeq(strategies, 1, Len(strategies) - 1)) } })

\* three of the points have finite coordinates and span a triangle of
\* non-zero area
NotAllCollinear(points) ==
  \E i, j, k \in 1..Len(points) :
    /\ i < j /\ j < k
    /\ \A p \in {points[i], points[j], points[k]} : isFinite(p.x) /\ isFinite(p.z)
    /\ BigAbsCross(points[j].x.v - points[i].x.v, points[k].z.v - points[i].z.v,
                   points[j].z.v - points[i].z.v, points[k].x.v - points[i].x.v)
         # << >>

\* the fallback whose error reports whether the last point set has three
\* points that span a triangle, in place of the flag of line 836
FallbackReportsLastPointSet ==
  /\ pc = "fallback"
  /\ \E outcome \in DelaunatorOutcomes(Len(currentPoints) + 4) :
     \E fallbackResult \in
          { createFallbackTriangulation(currentPoints, validationResult.boundingBox,
                                        outcome) } :
     \E combined \in { combinedPoints(currentPoints, validationResult.boundingBox) } :
     \E coordRange \in { computeCoordinateRange(combined) } :
     \E normalized \in { normalizeCoordinates(combined, coordRange) } :
       /\ hist' = [hist EXCEPT
            !.fallbacks = @ + 1,
            !.fallback = [points |-> currentPoints,
                          boundingBox |-> validationResult.boundingBox,
                          outcome |-> outcome, result |-> fallbackResult],
            !.primitiveOk =
              @ /\ (Len(currentPoints) >= 3 => Conforms(normalized.coords, outcome))]
       /\ IF fallbackResult.type = "success"
          THEN /\ triangulationResult' = fallbackResult
               /\ pc' = "assemble"
               /\ UNCHANGED thrown
          ELSE /\ Throw([message |-> "Delaunay triangulation failed",
                         attempts |-> attemptCount,
                         resultDetails |-> triangulationResult,
                         fallbackMessage |-> fallbackResult.message,
                         finalAttempt |-> Len(currentPoints),
                         collinear |-> ~NotAllCollinear(currentPoints),
                         geometryValidation |->
                           validatePointSetGeometry(currentPoints,
                                                    validationResult.boundingBox),
                         strategies |-> uniqueStrategies(attemptedStrategies)])
               /\ UNCHANGED triangulationResult
  /\ UNCHANGED << app, applied, positions, count, validationResult, initialPointCount, isCollinear,
                  currentPoints, currentStrategy, attemptedStrategies, attemptCount,
                  mesh, scene >>

\* lines 1025-1086
Fallback ==
  /\ pc = "fallback"
  /\ \E outcome \in DelaunatorOutcomes(Len(currentPoints) + 4) :
     \E fallbackResult \in
          { createFallbackTriangulation(currentPoints, validationResult.boundingBox,
                                        outcome) } :
     \E combined \in { combinedPoints(currentPoints, validationResult.boundingBox) } :
     \E coordRange \in { computeCoordinateRange(combined) } :
     \E normalized \in { normalizeCoordinates(combined, coordRange) } :
       /\ hist' = [hist EXCEPT
            !.fallbacks = @ + 1,
            !.fallback = [points |-> currentPoints,
                          boundingBox |-> validationResult.boundingBox,
                          outcome |-> outcome, result |-> fallbackResult],
            !.primitiveOk =
              @ /\ (Len(currentPoints) >= 3 => Conforms(normalized.coords, outcome))]
       /\ IF fallbackResult.type = "success"
          THEN /\ triangulationResult' = fallbackResult
               /\ pc' = "assemble"
               /\ UNCHANGED thrown
          ELSE /\ Throw([message |-> "Delaunay triangulation failed",
                         attempts |-> attemptCount,
                         resultDetails |-> triangulationResult,
                         fallbackMessage |-> fallbackResult.message,
                         finalAttempt |-> Len(currentPoints),
                         collinear |-> isCollinear,
                         geometryValidation |->
                           validatePointSetGeometry(currentPoints,
                                                    validationResult.boundingBox),
                         strategies |-> uniqueStrategies(attemptedStrategies)])
               /\ UNCHANGED triangulationResult
  /\ UNCHANGED << app, applied, positions, count, validationResult, initialPointCount, isCollinear,
                  currentPoints, currentStrategy, attemptedStrategies, attemptCount,
                  mesh, scene >>

\* validatedPositions filled from the normalized coordinates
validatedPositionsNormalized(points) ==
  [i \in 1..(3 * Len(points)) |->
     LET point == points[((i - 1) \div 3) + 1]
         coords == normalizeCoordinates(points, computeCoordinateRange(points)).coords
     IN  Float32(CASE (i - 1) % 3 = 0 -> Fin(coords[((i - 1) \div 3) + 1][1])
                   [] (i - 1) % 3 = 1 -> point.y
                   [] OTHER -> Fin(coords[((i - 1) \div 3) + 1][2]))]

\* lines 1094-1100
validatedPositions(points) ==
  [i \in 1..(3 * Len(points)) |->
     LET point == points[((i - 1) \div 3) + 1]
     IN  Float32(CASE (i - 1) % 3 = 0 -> point.x
                   [] (i - 1) % 3 = 1 -> point.y
                   [] OTHER -> point.z)]

\* the mesh constructed before a last validation that can still throw
AssembleBeforeValidation ==
  /\ pc = "assemble"
  /\ \E final \in { [validationResult EXCEPT !.validatedPoints = currentPoints] } :
     \E vertexPositions \in { validatedPositions(final.validatedPoints) } :
     \E customMesh \in { [name |-> "GS_NavMesh_Source",
                          positions |-> vertexPositions,
                          indices |-> triangulationResult.triangles,
                          normals |-> [i \in 1..Len(vertexPositions) |-> 0],
                          isVisible |-> FALSE] } :
       /\ validationResult' = final
       /\ mesh' = customMesh
       /\ scene' = Append(scene, customMesh.name)
       /\ IF Len(vertexPositions) < 3 * count
          THEN Throw([message |-> "Mesh validation failed"])
          ELSE pc' = "returned" /\ UNCHANGED thrown
  /\ UNCHANGED << app, applied, positions, count, initialPointCount, isCollinear, currentPoints,
                  currentStrategy, attemptedStrategies, triangulationResult,
                  attemptCount, hist >>

\* lines 1088-1121.  ComputeNormals is Babylon's: of the normals only the
\* length of the buffer it fills is modelled.
Assemble ==
  /\ pc = "assemble"
  /\ \E final \in { [validationResult EXCEPT !.validatedPoints = currentPoints] } :
     \E vertexPositions \in { validatedPositions(final.validatedPoints) } :
     \E customMesh \in { [name |-> "GS_NavMesh_Source",
                          positions |-> vertexPositions,
                          indices |-> triangulationResult.triangles,
                          normals |-> [i \in 1..Len(vertexPositions) |-> 0],
                          isVisible |-> FALSE] } :
       /\ validationResult' = final
       /\ mesh' = customMesh
       /\ scene' = Append(scene, customMesh.name)
  /\ pc' = "returned"
  /\ UNCHANGED << app, applied, positions, count, initialPointCount, isCollinear, currentPoints,
                  currentStrategy, attemptedStrategies, triangulationResult,
                  attemptCount, thrown, hist >>

Next ==
  \/ Sanitize
  \/ CheckCollinearity
  \/ InitialGeometry
  \/ GridDownsample
  \/ Attempt
  \/ Fallback
  \/ Assemble

Spec == Init /\ [][Next]_vars

\* validateAndDeduplicatePoints alone, applied to every input of Init
SanitizeSpec == Init /\ [][Sanitize]_vars

\* generateNavigableMesh is synchronous: once called it runs until it
\* returns or throws, so a step that can be taken is taken
FairSpec == OrderedInit /\ [][Next]_vars /\ WF_vars(Next)

\* ------------------------------------------------------------------------
\* Properties

\* the i-th point of the input buffer, i counted from 0
InputX(i) == positions[3 * i + 1]
InputY(i) == positions[3 * i + 2]
InputZ(i) == positions[3 * i + 3]

\* the bucket (floor(x / eps), floor(z / eps)) of the i-th input point
InputBucket(i) ==
  << FFloorDiv(InputX(i), POINT_TOLERANCE), FFloorDiv(InputZ(i), POINT_TOLERANCE) >>

\* validateAndDeduplicatePoints has returned and nothing has touched its result
Sanitized ==
  /\ validationResult # Null
  /\ pc \in {"collinearity", "thrown"}
  /\ hist.collinearityChecks = 0

MeshReturned == pc = "returned"

\* C1: whenever generateNavigableMesh returns, the positions buffer holds 3
\* numbers for each point of the final point set, the normals buffer is as
\* long as the positions buffer, the number of indices is a non-zero
\* multiple of 3, and every index is below the number of points.
C1_MeshInvariants ==
  MeshReturned =>
    /\ Len(mesh.positions) = 3 * Len(currentPoints)
    /\ Len(mesh.normals) = Len(mesh.positions)
    /\ Len(mesh.indices) > 0
    /\ Len(mesh.indices) % 3 = 0
    /\ \A i \in 1..Len(mesh.indices) :
         mesh.indices[i] >= 0 /\ mesh.indices[i] < Len(currentPoints)

\* a mesh returned through the fallback, built from fewer points than given
C1_Witness ==
  /\ MeshReturned
  /\ hist.fallbacks = 1
  /\ Len(mesh.positions) < 3 * count
  /\ Len(mesh.indices) = 3

\* what validateAndDeduplicatePoints makes of the input
DeduplicatedInput ==
  validateAndDeduplicatePoints(positions, count, [i \in 1..count |-> InputY(i - 1)])

\* the deduplicated point set of the input
Deduplicated == DeduplicatedInput.validatedPoints

\* the precondition of C2
TriangulableInput ==
  /\ count >= 3
  /\ \E points \in { Deduplicated } :
       Len(points) >= 3 /\ NotAllCollinear(points)

HealthyInput ==
  \E input \in { DeduplicatedInput } :
    /\ ~checkCollinearity(input.validatedPoints)
    /\ validatePointSetGeometry(input.validatedPoints, input.boundingBox).type = "valid"
    /\ Len(input.validatedPoints) <= MAX_POINTS_FOR_TRIANGULATION

C3_FirstOfBucketKept ==
  Sanitized =>
    LET kept == validationResult.validatedPoints
        indices == validationResult.originalIndices
        first(i) == \A j \in 0..(i - 1) : InputBucket(j) # InputBucket(i)
    IN  /\ Len(indices) = Len(kept)
        /\ {indices[k] : k \in 1..Len(indices)} = {i \in 0..(count - 1) : first(i)}
        /\ \A k \in 1..(Len(indices) - 1) : indices[k] < indices[k + 1]
        /\ \A k \in 1..Len(kept) :
             /\ kept[k].originalIndex = indices[k]
             /\ kept[k].x = InputX(indices[k])
             /\ kept[k].y = InputY(indices[k])
             /\ kept[k].z = InputZ(indices[k])

\* two different points of one bucket were given, and a later bucket too
C3_Witness ==
  /\ Sanitized
  /\ \E i, j \in 0..(count - 1) :
       /\ i < j
       /\ InputBucket(i) = InputBucket(j)
       /\ InputY(i) # InputY(j)
       /\ \E k \in (j + 1)..(count - 1) : InputBucket(k) # InputBucket(i)
  /\ Len(validationResult.validatedPoints) = count - 1

\* the position buffer built from a list of validated points
BufferOf(points) ==
  [i \in 1..(3 * Len(points)) |->
     LET point == points[((i - 1) \div 3) + 1]
     IN  CASE (i - 1) % 3 = 0 -> point.x
           [] (i - 1) % 3 = 1 -> point.y
           [] OTHER -> point.z]

\* C4: validateAndDeduplicatePoints applied to the buffer built from its own
\* output yields as many points, the same ones in the same order.
C4_SanitizeIdempotent ==
  Sanitized =>
    LET out == validationResult.validatedPoints
    IN  \E again \in { validateAndDeduplicatePoints(BufferOf(out), Len(out),
                                                    [i \in 1..Len(out) |-> out[i].y]) } :
          /\ Len(again.validatedPoints) = Len(out)
          /\ \A k \in 1..Len(out) :
               /\ again.validatedPoints[k].x = out[k].x
               /\ again.validatedPoints[k].y = out[k].y
               /\ again.validatedPoints[k].z = out[k].z

\* the output is shorter than the input and has points of different x and z
C4_Witness ==
  /\ Sanitized
  /\ Len(validationResult.validatedPoints) < count
  /\ \E k \in 1..Len(validationResult.validatedPoints) :
       validationResult.validatedPoints[k].x # validationResult.validatedPoints[k].z

\* fewer than 3 points are given, or they fill fewer than 3 buckets
InsufficientInput ==
  \/ count < 3
  \/ Cardinality({InputBucket(i) : i \in 0..(count - 1)}) < 3

InsufficientPointsErrors ==
  {"Point cloud must have at least 3 points for triangulation",
   "After deduplication, too few unique points remain"}

\* C5: for an input of fewer than 3 points, or of fewer than 3 points after
\* deduplication, the first step of generateNavigableMesh raises the
\* insufficient-points error, and no collinearity check, downsampling,
\* triangulation or fallback has taken place.
C5_InsufficientPointsFirst ==
  (InsufficientInput /\ pc # "start") =>
    /\ pc = "thrown"
    /\ thrown.message \in InsufficientPointsErrors
    /\ hist.collinearityChecks = 0
    /\ hist.downsamples = 0
    /\ hist.iterations = 0
    /\ hist.triangulations = 0
    /\ hist.fallbacks = 0

\* scenario C: three or more points, all of one bucket
C5_Witness ==
  /\ pc = "thrown"
  /\ count >= 3
  /\ Cardinality({InputBucket(i) : i \in 0..(count - 1)}) = 1
  /\ thrown.message = "After deduplication, too few unique points remain"

Terminated == pc \in {"returned", "thrown"}

\* C6: a run makes at most 6 iterations of the retry loop, hence at most 6
\* triangulation attempts, and it ends: a mesh is returned or an error is
\* raised.
C6_BoundedRetriesAndTermination ==
  /\ [](hist.iterations <= 6 /\ hist.triangulations <= 6)
  /\ <>Terminated

\* a run that ended after 6 triangulation attempts
C6_Witness ==
  /\ Terminated
  /\ hist.triangulations = 6

\* the validated point set as it stands before any grid downsampling or
\* retry: the deduplicated set, offset when it was found collinear
ValidatedBeforeDownsampling ==
  The({ IF checkCollinearity(input.validatedPoints)
        THEN applyCollinearityOffset(input.validatedPoints, input.boundingBox)
        ELSE input.validatedPoints : input \in { DeduplicatedInput } })

\* C7: the k-th progressive retry (k = 1..5) samples the validated point set
\* as it stood before any grid downsampling or retry, at the k-th of the
\* ratios 0.5, 0.25, 0.1, 0.05, 0.01 (here in hundredths).
C7_RetriesDrawFromValidatedSet ==
  hist.progressive # << >> =>
    \E validated \in { ValidatedBeforeDownsampling } :
      \A k \in 1..Len(hist.progressive) :
        LET call == hist.progressive[k]
        IN  /\ k <= 5
            /\ call.source = validated
            /\ call.attempt = k - 1
            /\ call.ratio = << 50, 25, 10, 5, 1 >>[k]
            /\ call.strategy.type = "progressive" =>
                 /\ call.strategy.ratio = call.ratio
                 /\ call.strategy.attempt = k - 1
                 /\ call.strategy.originalCount = Len(validated)

\* all 5 retries were made after a grid downsampling
C7_Witness ==
  /\ Len(hist.progressive) = 5
  /\ \E i \in 1..Len(attemptedStrategies) : attemptedStrategies[i].type = "grid"
  /\ hist.progressive[5].source # currentPoints

\* C8: the history has an entry for every failed attempt, and every
\* progressive retry made is in the history as a Progressive entry with its
\* ratio and its attempt index.
C8_EveryAttemptRecorded ==
  /\ Len(attemptedStrategies) >= attemptCount
  /\ \A k \in 1..Len(hist.progressive) :
       \E i \in 1..Len(attemptedStrategies) :
         /\ attemptedStrategies[i].type = "progressive"
         /\ attemptedStrategies[i].ratio = hist.progressive[k].ratio
         /\ attemptedStrategies[i].attempt = hist.progressive[k].attempt

\* C9: createFallbackTriangulation triangulates the n given points followed
\* by the four corners of the bounding box; it returns Success exactly when
\* that triangulation has a triangle without a corner, and a Success holds
\* only triangles of the triangulation without a corner, every index < n.
C9_FallbackKeepsInnerTriangles ==
  hist.fallback # Null =>
    LET points == hist.fallback.points
        n == Len(points)
        outcome == hist.fallback.outcome
        result == hist.fallback.result
        box == validationResult.boundingBox
        combined == combinedPoints(points, box)
        triangulated ==
          /\ n >= 3
          /\ ~outcome.threw
          /\ validateDelaunatorResult(outcome.result, n + 4).type = "success"
        given == outcome.result.triangles.data
        triangle(t, k) == << t[3 * k - 2], t[3 * k - 1], t[3 * k] >>
        inner(k) == \A v \in 1..3 : triangle(given, k)[v] < n
    IN  /\ Len(combined) = n + 4
        /\ SubSeq(combined, 1, n) = points
        /\ {<< combined[n + c].x, combined[n + c].z >> : c \in 1..4}
             = {box.minX, box.maxX} \X {box.minZ, box.maxZ}
        /\ (result.type = "success") <=>
             (triangulated /\ \E k \in 1..(Len(given) \div 3) : inner(k))
        /\ result.type = "success" =>
             /\ Len(result.triangles) % 3 = 0
             /\ \A i \in 1..Len(result.triangles) : result.triangles[i] < n
             /\ \A j \in 1..(Len(result.triangles) \div 3) :
                  \E k \in 1..(Len(given) \div 3) :
                    inner(k) /\ triangle(result.triangles, j) = triangle(given, k)

\* the fallback dropped a triangle with a corner and kept the one without
C9_Witness ==
  /\ hist.fallback # Null
  /\ hist.fallback.result.type = "success"
  /\ Len(hist.fallback.outcome.result.triangles.data) = 6
  /\ Len(hist.fallback.result.triangles) = 3

Succeeded == triangulationResult # Null /\ triangulationResult.type = "success"

\* C10: the fallback runs at most once, after the retry loop has ended
\* without a Success; once a result is a Success nothing more is
\* downsampled, triangulated or handed to the fallback; and the
\* 'triangulation failed' error is raised only by a fallback that failed.
C10_FallbackIsLastResort ==
  [][/\ hist'.fallbacks # hist.fallbacks =>
          /\ hist.fallbacks = 0
          /\ hist'.fallbacks = 1
          /\ pc = "fallback"
          /\ hist.iterations >= 1
          /\ ~Succeeded
     /\ Succeeded =>
          /\ hist'.downsamples = hist.downsamples
          /\ hist'.iterations = hist.iterations
          /\ hist'.triangulations = hist.triangulations
          /\ hist'.fallbacks = hist.fallbacks
     /\ (pc' = "thrown" /\ thrown'.message = "Delaunay triangulation failed") =>
          /\ hist'.fallbacks = 1
          /\ hist'.fallback.result.type # "success"
          /\ pc = "fallback"]_vars

\* the terminal error, raised after 6 failed iterations and a failed fallback
C10_Witness ==
  /\ pc = "thrown"
  /\ thrown.message = "Delaunay triangulation failed"
  /\ hist.fallbacks = 1
  /\ hist.iterations = 6

\* ------------------------------------------------------------------------
\* the calls of downsamplePoints made so far with more points than
\* targetCount: that of line 868 and those of downsamplePointsProgressive
\* (line 635, targetCount = Math.max(3, Math.floor(points.length * ratio)))
DownsampleCalls ==
  { call \in
      (IF hist.grid = Null THEN {}
       ELSE { [points |-> hist.grid.points,
               boundingBox |-> hist.grid.boundingBox,
               targetCount |-> hist.grid.targetCount,
               returned |-> hist.grid.result.points] })
      \cup
      { [points |-> hist.progressive[k].source,
         boundingBox |-> hist.progressive[k].boundingBox,
         targetCount |-> IntMax(3, (Len(hist.progressive[k].source)
                                      * hist.progressive[k].ratio) \div 100),
         returned |-> hist.progressive[k].points] : k \in 1..Len(hist.progressive) } :
    Len(call.points) > call.targetCount }

\* the points of the first pass of downsamplePoints (lines 449-488): one
\* representative per cell of the grid
representatives(points, boundingBox, targetCount) ==
  The({ The({ RepresentativeLoop(gridMap, 1,
                [points |-> << >>, originalIndices |-> << >>,
                 usedPoints |-> {}]).points :
              gridMap \in { GridMapLoop(points, boundingBox, gridSize, 1, << >>) } }) :
        gridSize \in { gridSizeFor(boundingBox, targetCount) } })

\* the result of a call is that of the first pass
SingleRepresentative(call) ==
  call.returned = representatives(call.points, call.boundingBox, call.targetCount)

\* C11: whenever downsamplePoints is called with more points than
\* targetCount and returns its one-representative-per-cell result, it returns
\* at least 3 and at most targetCount points; and when the deduplicated set
\* has more than MAX_POINTS_FOR_TRIANGULATION points, the set handed to the
\* first triangulation, and the returned mesh, have at most that many.
C11_GridDownsampleWithinTarget ==
  /\ \A call \in DownsampleCalls :
       SingleRepresentative(call) =>
         /\ Len(call.returned) >= 3
         /\ Len(call.returned) <= call.targetCount
  /\ (hist.grid # Null /\ pc = "loop" /\ hist.iterations = 0) =>
       Len(currentPoints) <= MAX_POINTS_FOR_TRIANGULATION
  /\ (hist.grid # Null /\ MeshReturned /\ hist.iterations = 1) =>
       Len(mesh.positions) <= 3 * MAX_POINTS_FOR_TRIANGULATION

\* ------------------------------------------------------------------------
\* C12: when the deduplicated point set has at most
\* MAX_POINTS_FOR_TRIANGULATION points, the first iteration of the retry loop
\* starts with every deduplicated point, in order, no downsampling done, the
\* current strategy None and an empty attempt history; and once that first
\* attempt has succeeded no downsampling has been or is done in the run.
C12_NoDownsamplingBelowThreshold ==
  \E input \in { DeduplicatedInput } :
    Len(input.validatedPoints) <= MAX_POINTS_FOR_TRIANGULATION =>
      /\ (pc = "loop" /\ hist.iterations = 0) =>
           /\ hist.downsamples = 0
           /\ hist.grid = Null
           /\ [i \in 1..Len(currentPoints) |-> currentPoints[i].originalIndex]
                = input.originalIndices
           /\ currentStrategy = [type |-> "none",
                                 pointCount |-> Len(input.validatedPoints)]
           /\ attemptedStrategies = << >>
      /\ (hist.iterations = 1 /\ hist.fallbacks = 0 /\ Succeeded) =>
           /\ hist.downsamples = 0
           /\ hist.progressive = << >>

\* a mesh returned by the first attempt for 4 points given, one of them a
\* duplicate dropped by the deduplication, none by a downsampling
C12_Witness ==
  /\ MeshReturned
  /\ count = 4
  /\ Len(Deduplicated) = MAX_POINTS_FOR_TRIANGULATION
  /\ hist.iterations = 1
  /\ hist.downsamples = 0
  /\ Len(currentPoints) = 3

\* ------------------------------------------------------------------------
\* Functions of the module applied on their own.  generateNavigableMesh is
\* not running: its variables stay as they are before a call.
Applying(function, arguments) ==
  /\ Called(0, << >>)
  /\ applied = [function |-> function, arguments |-> arguments,
                done |-> FALSE, returned |-> Null]
  /\ app = Null

\* the function returns
Apply(function, returned) ==
  /\ applied # Null
  /\ applied.function = function
  /\ ~applied.done
  /\ applied' = [applied EXCEPT !.done = TRUE, !.returned = returned]
  /\ UNCHANGED << positions, count, pc, validationResult, initialPointCount,
                  isCollinear, currentPoints, currentStrategy, attemptedStrategies,
                  triangulationResult, attemptCount, thrown, mesh, scene, hist, app >>

\* function has returned
Applied(function) == applied # Null /\ applied.function = function /\ applied.done

\* the longest triangle array handed to validateDelaunatorResult
MaxTriangleLength == 6

\* the objects handed to validateDelaunatorResult: triangles absent, a
\* Uint32Array or something else, with indices 0..2; no half-edge array, one
\* as long as the triangle array or one longer by one
ValidatedObjects ==
  { DelaunatorObject("absent", << >>, h) : h \in {-1, 0} }
  \cup
  UNION { { DelaunatorObject(kind, data, h) :
              kind \in {"u32", "other"}, h \in {-1, Len(data), Len(data) + 1} } :
          data \in UNION { [1..n -> 0..2] : n \in 0..MaxTriangleLength } }

ValidateInit ==
  \E object \in ValidatedObjects : \E pointCount \in 2..3 :
    Applying("validateDelaunatorResult", [result |-> object, pointCount |-> pointCount])

ValidateResult ==
  Apply("validateDelaunatorResult",
        validateDelaunatorResult(applied.arguments.result, applied.arguments.pointCount))

\* validateDelaunatorResult applied to every object of ValidatedObjects
ValidateSpec == ValidateInit /\ [][ValidateResult]_vars

\* C13: validateDelaunatorResult returns Success (with the triangle array it
\* was given) exactly when the triangle array is a non-empty Uint32Array whose
\* length is a multiple of 3, every index is < pointCount and the half-edge
\* array, when there is one, is as long as the triangle array; it returns
\* Empty exactly when the triangle array is absent or of length zero; and it
\* returns Error in every other case.
C13_ResultClassification ==
  Applied("validateDelaunatorResult") =>
    LET triangles == applied.arguments.result.triangles
        halfedges == applied.arguments.result.halfedges
        pointCount == applied.arguments.pointCount
        isArray == triangles.kind = "u32"
        wellFormed ==
          /\ isArray
          /\ Len(triangles.data) > 0
          /\ Len(triangles.data) % 3 = 0
          /\ \A i \in 1..Len(triangles.data) : triangles.data[i] < pointCount
          /\ halfedges # -1 => halfedges = Len(triangles.data)
        empty == triangles.kind = "absent" \/ (isArray /\ Len(triangles.data) = 0)
    IN  /\ applied.returned.type \in {"success", "empty", "error"}
        /\ applied.returned.type = "success" <=> wellFormed
        /\ applied.returned.type = "success" =>
             /\ applied.returned.triangles = triangles.data
             /\ applied.returned.pointCount = pointCount
        /\ applied.returned.type = "empty" <=> empty
        /\ applied.returned.type = "error" <=> (~wellFormed /\ ~empty)

\* two triangles of indices below pointCount with a half-edge array that is
\* too long: an Error
C13_Witness ==
  /\ Applied("validateDelaunatorResult")
  /\ applied.arguments.result.triangles.kind = "u32"
  /\ Len(applied.arguments.result.triangles.data) = 6
  /\ \A i \in 1..6 : applied.arguments.result.triangles.data[i] < applied.arguments.pointCount
  /\ applied.arguments.result.halfedges = 7
  /\ applied.returned.type = "error"

\* ------------------------------------------------------------------------
\* validateCoordinates applied on its own
\* the longest array handed to validateCoordinates
MaxCoordinatePoints == 3

\* the values of a coordinate handed to validateCoordinates
CoordinateValues == {Fin(0), NaN, PosInf, NegInf}

\* the arrays handed to validateCoordinates: every x and z of
\* CoordinateValues, the points told apart by originalIndex
CoordinateInputs ==
  UNION { { [i \in 1..n |-> ValidatedPoint(xs[i], zs[i], i - 1, Fin(0))] :
              xs \in [1..n -> CoordinateValues], zs \in [1..n -> CoordinateValues] } :
          n \in 0..MaxCoordinatePoints }

CoordinateInit ==
  \E points \in CoordinateInputs : Applying("validateCoordinates", [points |-> points])

CoordinateResult ==
  Apply("validateCoordinates", validateCoordinates(applied.arguments.points))

CoordinateSpec == CoordinateInit /\ [][CoordinateResult]_vars

\* C14: validateCoordinates splits its input, in input order, into the points
\* whose x and z are both finite and the rest.  With no rejected point it
\* returns 'valid' and the input itself; otherwise 'invalid' with exactly the
\* finite points in input order, invalidCount = length - number of finite
\* points, and the reason 'NaN values found' exactly when every rejected
\* point has a NaN coordinate, 'Infinity values found' exactly when none has,
\* and 'NaN and Infinity values found' otherwise.
C14_CoordinatePartition ==
  Applied("validateCoordinates") =>
    LET points == applied.arguments.points
        returned == applied.returned
        finite == {i \in 1..Len(points) : points[i].x.k = "fin" /\ points[i].z.k = "fin"}
        rejected == (1..Len(points)) \ finite
        withNaN == {i \in rejected : points[i].x.k = "nan" \/ points[i].z.k = "nan"}
        \* the k-th finite point of the input
        nth(k) == CHOOSE i \in finite : Cardinality({j \in finite : j < i}) = k - 1
    IN  IF rejected = {}
        THEN returned.type = "valid" /\ returned.validPoints = points
        ELSE /\ returned.type = "invalid"
             /\ Len(returned.validPoints) = Cardinality(finite)
             /\ \A k \in 1..Len(returned.validPoints) :
                  returned.validPoints[k] = points[nth(k)]
             /\ returned.invalidCount = Len(points) - Cardinality(finite)
             /\ returned.reason = (IF withNaN = rejected THEN "NaN values found"
                                   ELSE IF withNaN = {} THEN "Infinity values found"
                                   ELSE "NaN and Infinity values found")

\* a finite point between a point with x = Infinity and z = NaN and a point
\* with x = NaN: one point kept, two rejected, both for NaN
C14_Witness ==
  /\ Applied("validateCoordinates")
  /\ Len(applied.arguments.points) = 3
  /\ applied.arguments.points[1].x = PosInf /\ applied.arguments.points[1].z = NaN
  /\ applied.arguments.points[2].x = Fin(0) /\ applied.arguments.points[2].z = Fin(0)
  /\ applied.arguments.points[3].x = NaN
  /\ applied.returned.type = "invalid"
  /\ applied.returned.reason = "NaN values found"
  /\ applied.returned.invalidCount = 2
  /\ Len(applied.returned.validPoints) = 1
  /\ applied.returned.validPoints[1].originalIndex = 1

\* ------------------------------------------------------------------------
\* C15: within a run coordinate validation comes before the other
\* conditioning steps: once collinearity detection (and with it correction
\* and health validation, which follow it) has been applied to the point
\* set, validateCoordinates has been applied to it.  validateCoordinates is
\* called at line 887 only, first thing in an iteration of the retry loop,
\* so hist.iterations counts its calls.
C15_CoordinateValidationFirst ==
  hist.collinearityChecks > 0 => hist.iterations > 0

\* ------------------------------------------------------------------------
\* the deduplicated points of the input, 3 or more, are finite and all lie
\* on one line
CollinearInput ==
  /\ count >= 3
  /\ \E points \in { Deduplicated } :
       /\ Len(points) >= 3
       /\ \A i \in 1..Len(points) : isFinite(points[i].x) /\ isFinite(points[i].z)
       /\ ~NotAllCollinear(points)

\* C16: for every input whose deduplicated points all lie on one line the
\* collinearity-correction path is triggered (the first detection flags the
\* set, the offset is applied and the detection is run again: two calls of
\* checkCollinearity), and the run ends with a returned mesh or with the
\* error 'Points are collinear and could not be corrected', never with
\* another error.
C16_CollinearInputCorrectedOrRejected ==
  CollinearInput =>
    /\ hist.collinearityChecks > 0 => hist.collinearityChecks = 2
    /\ pc = "thrown" => thrown.message = "Points are collinear and could not be corrected"

\* ------------------------------------------------------------------------
\* the exact check of checkCollinearity (lines 294-312): three or more
\* points that all share the x of the first or all share its z, within
\* POINT_TOLERANCE
ExactlyCollinear(points) ==
  /\ Len(points) >= 3
  /\ \/ \A i \in 2..Len(points) :
          ~FGt(FAbs(FSub(points[i].x, points[1].x)), Fin(POINT_TOLERANCE))
     \/ \A i \in 2..Len(points) :
          ~FGt(FAbs(FSub(points[i].z, points[1].z)), Fin(POINT_TOLERANCE))

\* C17: applyCollinearityOffset breaks exact collinearity: when a set of 3
\* or more points is flagged because all points share x or all share z, the
\* set returned by applyCollinearityOffset is not flagged by that check.
\* After the two calls of checkCollinearity of lines 827-836
\* validationResult.validatedPoints is the offset set.
C17_OffsetBreaksExactCollinearity ==
  (hist.collinearityChecks = 2 /\ ExactlyCollinear(Deduplicated)) =>
    ~ExactlyCollinear(validationResult.validatedPoints)

\* ------------------------------------------------------------------------
\* checkCollinearity reaches its loop over the triples (lines 321-341): the
\* exact check does not flag the set and the tolerance maxSpread * 1e-3 is
\* not below POINT_TOLERANCE
TriplesInspected(points) ==
  /\ Len(points) >= 3
  /\ ~ExactlyCollinear(points)
  /\ \E coordRange \in { computeCoordinateRange(points) } :
       ~FLt(FMax(coordRange.spreadX, coordRange.spreadZ),
            Fin(NEAR_COLLINEAR_TOLERANCE_DEN * POINT_TOLERANCE))

\* C18: the approximate check of checkCollinearity declares a set of 3 or
\* more points collinear exactly when at least 90% of the inspected triples
\* (i, i+1, i+2), of which there are length - 2, have an area below
\* tolerance^2.  Stated of the set generateNavigableMesh hands to
\* checkCollinearity at line 827.
C18_NinetyPercentOfTriples ==
  pc = "collinearity" =>
    \E points \in { validationResult.validatedPoints } :
      TriplesInspected(points) =>
        \E maxSpread \in { FMax(computeCoordinateRange(points).spreadX,
                                computeCoordinateRange(points).spreadZ) } :
          checkCollinearity(points) <=>
            10 * nearCollinearCount(points, maxSpread) >= 9 * (Len(points) - 2)

\* ------------------------------------------------------------------------
\* boundingBox is the bounding box of points, computed as
\* validateAndDeduplicatePoints and computeCoordinateRange compute it (by
\* comparisons from +Infinity and -Infinity)
IsBoundingBoxOf(boundingBox, points) ==
  \E range \in { computeCoordinateRange(points) } :
    /\ boundingBox.minX = range.minX /\ boundingBox.maxX = range.maxX
    /\ boundingBox.minZ = range.minZ /\ boundingBox.maxZ = range.maxZ
    /\ boundingBox.width = range.spreadX /\ boundingBox.height = range.spreadZ

\* C19: the bounding box is recomputed whenever the active point set
\* changes: the health validation after the collinearity offset (line 854),
\* the grid downsampling (line 868), the health validation and perturbation
\* of a loop iteration (lines 919-921, applied to the finite points of
\* currentPoints) and the fallback (line 1026) are each given the bounding
\* box of the point set they are applied to.
C19_BoundingBoxRecomputed ==
  /\ pc = "geometry" =>
       IsBoundingBoxOf(validationResult.boundingBox, validationResult.validatedPoints)
  /\ hist.grid # Null => IsBoundingBoxOf(hist.grid.boundingBox, hist.grid.points)
  /\ pc = "loop" =>
       IsBoundingBoxOf(validationResult.boundingBox,
                       validateCoordinates(currentPoints).validPoints)
  /\ hist.fallback # Null =>
       IsBoundingBoxOf(hist.fallback.boundingBox, hist.fallback.points)

\* ------------------------------------------------------------------------
\* delaunayTriangulation and computeNormals (the enumeration of all index
\* triples).  A vertex coordinate is a whole number of steps of 0.008
\* (CoordinateStepMicro millionths), so that a cross product is a whole
\* number of units of 6.4e-5 and the threshold 0.0001 lies between 1 and 2
\* units.
CoordinateStepMicro == 8000

\* const MAX_TRIANGLES (10000000 in part_001 line 111), scaled down so that
\* a point cloud of the model has more qualifying triples
MAX_TRIANGLES == 3

\* the most vertices of a point cloud and the largest x and z, in steps
MaxVertexCount == 4
MaxCoordinate == 2

\* Math.sqrt of a perfect square
Sqrt(n) == CHOOSE r \in 0..n : r * r = n

\* a length, in squared steps, is > 0.0001
AboveThreshold(len) == len * CoordinateStepMicro * CoordinateStepMicro > 100000000

\* the cross product (p1 - p0) x (p2 - p0) of the vertices at the flat
\* offsets i0, i1, i2
crossOf(vertices, i0, i1, i2) ==
  LET v1x == vertices[i1 + 1] - vertices[i0 + 1]
      v1y == vertices[i1 + 2] - vertices[i0 + 2]
      v1z == vertices[i1 + 3] - vertices[i0 + 3]
      v2x == vertices[i2 + 1] - vertices[i0 + 1]
      v2y == vertices[i2 + 2] - vertices[i0 + 2]
      v2z == vertices[i2 + 3] - vertices[i0 + 3]
  IN  << v1y * v2z - v1z * v2y, v1z * v2x - v1x * v2z, v1x * v2y - v1y * v2x >>

lengthOf(n) == Sqrt(n[1] * n[1] + n[2] * n[2] + n[3] * n[3])

isValidTriangle(vertices, i, j, k) ==
  AboveThreshold(lengthOf(crossOf(vertices, i * 3, j * 3, k * 3)))

\* the first loop of computeNormals: normals and counts after the triangles
\* i, i + 1, ..
RECURSIVE FaceLoop(_, _, _, _, _)
FaceLoop(vertices, indices, triangleCount, i, acc) ==
  IF i >= triangleCount THEN acc
  ELSE
    LET i0 == indices[i * 3 + 1] * 3
        i1 == indices[i * 3 + 2] * 3
        i2 == indices[i * 3 + 3] * 3
        \* how many of the three corners have the component c (1-based) on
        \* axis k
        hits(c, k) == (IF c = i0 + k THEN 1 ELSE 0) + (IF c = i1 + k THEN 1 ELSE 0)
                      + (IF c = i2 + k THEN 1 ELSE 0)
    IN  The({ FaceLoop(vertices, indices, triangleCount, i + 1, next) :
              next \in {
                The({ IF AboveThreshold(len)
                      THEN [normals |->
                              [c \in 1..Len(vertices) |->
                                 acc.normals[c] + hits(c, 1) * (n[1] \div len)
                                 + hits(c, 2) * (n[2] \div len)
                                 + hits(c, 3) * (n[3] \div len)],
                            counts |->
                              [v \in 1..(Len(vertices) \div 3) |->
                                 acc.counts[v] + hits((v - 1) * 3 + 1, 1)]]
                      ELSE acc :
                      n \in { crossOf(vertices, i0, i1, i2) },
                      len \in { lengthOf(crossOf(vertices, i0, i1, i2)) } }) } })

\* a component of a normal is the fraction n / d
computeNormals(vertices, indices, triangleCount) ==
  The({ [c \in 1..Len(vertices) |->
          LET v == ((c - 1) \div 3) + 1
              contributions == acc.counts[v]
              sum == << acc.normals[3 * v - 2], acc.normals[3 * v - 1],
                        acc.normals[3 * v] >>
          IN  IF contributions > 0
              THEN \* len = |sum| / count > 0.0001
                   IF lengthOf(sum) * 10000 > contributions
                   THEN [n |-> acc.normals[c], d |-> lengthOf(sum)]
                   ELSE [n |-> acc.normals[c], d |-> contributions]
              ELSE [n |-> acc.normals[c], d |-> 1]] :
        acc \in { FaceLoop(vertices, indices, triangleCount, 0,
                           [normals |-> [c \in 1..Len(vertices) |-> 0],
                            counts |-> [v \in 1..(Len(vertices) \div 3) |-> 0]]) } })

\* the index triples i < j < k in the order of the three loops
TripleOrder(vertexCount) ==
  LET triples == {t \in (0..(vertexCount - 1)) \X (0..(vertexCount - 1))
                         \X (0..(vertexCount - 1)) :
                    t[1] < t[2] /\ t[2] < t[3]}
      before(s, t) == \/ s[1] < t[1]
                      \/ s[1] = t[1] /\ s[2] < t[2]
                      \/ s[1] = t[1] /\ s[2] = t[2] /\ s[3] < t[3]
  IN  CHOOSE order \in [1..Cardinality(triples) -> triples] :
        \A a, b \in 1..Cardinality(triples) : a < b => before(order[a], order[b])

\* the enumeration stopping one triangle after the cap
RECURSIVE TriangleLoopPastCap(_, _, _, _)
TriangleLoopPastCap(vertices, order, at, indices) ==
  IF at > Len(order) \/ Len(indices) \div 3 > MAX_TRIANGLES THEN indices
  ELSE The({ TriangleLoopPastCap(vertices, order, at + 1, next) :
             next \in { IF isValidTriangle(vertices, order[at][1], order[at][2],
                                           order[at][3])
                        THEN indices \o order[at] ELSE indices } })

RECURSIVE TriangleLoop(_, _, _, _)
TriangleLoop(vertices, order, at, indices) ==
  IF at > Len(order) \/ Len(indices) \div 3 >= MAX_TRIANGLES THEN indices
  ELSE The({ TriangleLoop(vertices, order, at + 1, next) :
             next \in { IF isValidTriangle(vertices, order[at][1], order[at][2],
                                           order[at][3])
                        THEN indices \o order[at] ELSE indices } })

delaunayTriangulation(pointCloud) ==
  The({ IF Len(indices) = 0
        THEN [type |-> "error", message |-> "No valid triangles found in point cloud"]
        ELSE [type |-> "mesh",
              vertices |-> pointCloud.vertices,
              indices |-> indices,
              normals |-> computeNormals(pointCloud.vertices, indices, Len(indices) \div 3),
              vertexCount |-> pointCloud.count,
              indexCount |-> Len(indices)] :
        indices \in { TriangleLoop(pointCloud.vertices, TripleOrder(pointCloud.count),
                                   1, << >>) } })

\* the point clouds handed to delaunayTriangulation: 3 to MaxVertexCount
\* points of the plane y = 0 with x and z of 0..MaxCoordinate steps
PointClouds ==
  UNION { { [vertices |-> [c \in 1..(3 * vertexCount) |->
                             IF (c - 1) % 3 = 0 THEN xs[((c - 1) \div 3) + 1]
                             ELSE IF (c - 1) % 3 = 1 THEN 0
                             ELSE zs[((c - 1) \div 3) + 1]],
             count |-> vertexCount] :
            xs \in [1..vertexCount -> 0..MaxCoordinate],
            zs \in [1..vertexCount -> 0..MaxCoordinate] } :
          vertexCount \in 3..MaxVertexCount }

TriangulationInit ==
  \E pointCloud \in PointClouds :
    Applying("delaunayTriangulation", [pointCloud |-> pointCloud])

TriangulationResult ==
  Apply("delaunayTriangulation", delaunayTriangulation(applied.arguments.pointCloud))

TriangulationSpec == TriangulationInit /\ [][TriangulationResult]_vars

\* the triangles of a mesh with the vertex v whose face normal is longer
\* than 0.0001
ContributingFaces(meshOf, v) ==
  {t \in 0..((meshOf.indexCount \div 3) - 1) :
     /\ v \in {meshOf.indices[t * 3 + 1], meshOf.indices[t * 3 + 2],
               meshOf.indices[t * 3 + 3]}
     /\ AboveThreshold(lengthOf(crossOf(meshOf.vertices, meshOf.indices[t * 3 + 1] * 3,
                                        meshOf.indices[t * 3 + 2] * 3,
                                        meshOf.indices[t * 3 + 3] * 3)))}

\* C20: in every mesh produced with computeNormals each vertex normal has
\* length 1 within 1e-3 or is the zero vector, and it is the zero vector
\* exactly when no face with a face normal longer than 1e-4 contributes to
\* the vertex.
C20_UnitOrZeroNormals ==
  (Applied("delaunayTriangulation") /\ applied.returned.type = "mesh") =>
    \E meshOf \in { applied.returned } :
      \A v \in 0..(meshOf.vertexCount - 1) :
        LET normal == << meshOf.normals[3 * v + 1], meshOf.normals[3 * v + 2],
                         meshOf.normals[3 * v + 3] >>
            squared == normal[1].n * normal[1].n + normal[2].n * normal[2].n
                       + normal[3].n * normal[3].n
            d == normal[1].d
            isZero == squared = 0
            \* 0.999 <= sqrt(squared) / d <= 1.001
            isUnit == /\ 999 * 999 * d * d <= 1000 * 1000 * squared
                      /\ 1000 * 1000 * squared <= 1001 * 1001 * d * d
        IN  /\ isZero \/ isUnit
            /\ isZero <=> ContributingFaces(meshOf, v) = {}

\* ------------------------------------------------------------------------
\* downsamplePointCloud (part_001 lines 53-89)
\* the rows 0, step, 2 * step, .. of a flat array of rows of 3 values
Strided(array, newCount, step) ==
  [c \in 1..(newCount * 3) |-> array[((c - 1) \div 3) * step * 3 + ((c - 1) % 3) + 1]]

\* downsamplePointCloud returning the first newCount points
downsamplePointCloudFirstPoints(pointCloud, maxPoints) ==
  IF pointCloud.count <= maxPoints THEN pointCloud
  ELSE The({ [vertices |-> Strided(pointCloud.vertices, newCount, 1),
              colors |-> Strided(pointCloud.colors, newCount, 1),
              normals |-> IF pointCloud.normals.type = "null" THEN Null
                          ELSE [type |-> "array",
                                data |-> Strided(pointCloud.normals.data, newCount, 1)],
              count |-> newCount] :
             newCount \in { pointCloud.count
                            \div ((pointCloud.count + maxPoints - 1) \div maxPoints) } })

downsamplePointCloud(pointCloud, maxPoints) ==
  IF pointCloud.count <= maxPoints THEN pointCloud
  ELSE The({ [vertices |-> Strided(pointCloud.vertices, newCount, step),
              colors |-> Strided(pointCloud.colors, newCount, step),
              normals |-> IF pointCloud.normals.type = "null" THEN Null
                          ELSE [type |-> "array",
                                data |-> Strided(pointCloud.normals.data, newCount, step)],
              count |-> newCount] :
             \* step = Math.ceil(count / maxPoints), newCount = Math.floor(count / step)
             step \in { (pointCloud.count + maxPoints - 1) \div maxPoints },
             newCount \in { pointCloud.count
                            \div ((pointCloud.count + maxPoints - 1) \div maxPoints) } })

\* the largest point cloud and the largest maxPoints handed to
\* downsamplePointCloud
MaxCloudCount == 12
MaxPointsCap == 6

\* point clouds of 0..MaxCloudCount points with or without normals; the
\* component k of point i is 3 * i + k in vertices, its negative in normals
\* and 1000 more in colors, so that every row is told apart
SampledClouds ==
  { [vertices |-> [c \in 1..(3 * n) |-> c - 1],
     colors |-> [c \in 1..(3 * n) |-> 1000 + c - 1],
     normals |-> IF withNormals THEN [type |-> "array", data |-> [c \in 1..(3 * n) |-> 1 - c]]
                 ELSE Null,
     count |-> n] :
    n \in 0..MaxCloudCount, withNormals \in BOOLEAN }

SamplingInit ==
  \E pointCloud \in SampledClouds : \E maxPoints \in 1..MaxPointsCap :
    Applying("downsamplePointCloud", [pointCloud |-> pointCloud, maxPoints |-> maxPoints])

SamplingResult ==
  Apply("downsamplePointCloud",
        downsamplePointCloud(applied.arguments.pointCloud, applied.arguments.maxPoints))

SamplingSpec == SamplingInit /\ [][SamplingResult]_vars

\* C21: downsamplePointCloud returns its input unchanged when count <=
\* maxPoints; otherwise, with step = ceil(count / maxPoints), it returns
\* newCount = floor(count / step) points with 1 <= newCount <= maxPoints,
\* output point i is input point i * step (vertices, colors and, when there
\* are normals, normals) and every source index i * step is < count.
C21_UniformStride ==
  Applied("downsamplePointCloud") =>
    LET pointCloud == applied.arguments.pointCloud
        maxPoints == applied.arguments.maxPoints
        returned == applied.returned
        \* the least whole number not below count / maxPoints
        step == CHOOSE s \in 1..(pointCloud.count + 1) :
                  /\ s * maxPoints >= pointCloud.count
                  /\ (s - 1) * maxPoints < pointCloud.count
        \* the greatest whole number not above count / step
        newCount == CHOOSE m \in 0..pointCloud.count :
                      m * step <= pointCloud.count /\ (m + 1) * step > pointCloud.count
    IN  IF pointCloud.count <= maxPoints THEN returned = pointCloud
        ELSE /\ returned.count = newCount
             /\ 1 <= returned.count /\ returned.count <= maxPoints
             /\ Len(returned.vertices) = 3 * newCount
             /\ Len(returned.colors) = 3 * newCount
             /\ returned.normals.type = pointCloud.normals.type
             /\ \A i \in 0..(newCount - 1) :
                  /\ i * step < pointCloud.count
                  /\ \A k \in 1..3 :
                       /\ returned.vertices[3 * i + k] = pointCloud.vertices[3 * i * step + k]
                       /\ returned.colors[3 * i + k] = pointCloud.colors[3 * i * step + k]
                       /\ returned.normals.type = "array" =>
                            returned.normals.data[3 * i + k]
                              = pointCloud.normals.data[3 * i * step + k]

\* 11 points with normals and maxPoints = 4: step 3, the points 0, 3 and 6
\* are returned
C21_Witness ==
  /\ Applied("downsamplePointCloud")
  /\ applied.arguments.pointCloud.count = 11
  /\ applied.arguments.pointCloud.normals.type = "array"
  /\ applied.arguments.maxPoints = 4
  /\ applied.returned.count = 3
  /\ applied.returned.vertices = << 0, 1, 2, 9, 10, 11, 18, 19, 20 >>

\* ------------------------------------------------------------------------
\* s comes before t in the order of the three nested loops
LexBefore(s, t) ==
  \/ s[1] < t[1]
  \/ s[1] = t[1] /\ s[2] < t[2]
  \/ s[1] = t[1] /\ s[2] = t[2] /\ s[3] < t[3]

\* the index triples i < j < k < count of a point cloud whose cross product
\* is longer than 1e-4
QualifyingTriples(pointCloud) ==
  {t \in (0..(pointCloud.count - 1)) \X (0..(pointCloud.count - 1))
         \X (0..(pointCloud.count - 1)) :
     /\ t[1] < t[2] /\ t[2] < t[3]
     /\ AboveThreshold(lengthOf(crossOf(pointCloud.vertices, 3 * t[1], 3 * t[2], 3 * t[3])))}

\* C22: delaunayTriangulation emits only index triples i < j < k < count
\* whose cross product is longer than 1e-4, in lexicographic order, and
\* every such triple until MAX_TRIANGLES have been emitted: the emitted
\* triples are the first min(MAX_TRIANGLES, number of qualifying triples)
\* qualifying triples.  It raises 'No valid triangles' exactly when no
\* triple qualifies.
C22_ExhaustiveEnumeration ==
  Applied("delaunayTriangulation") =>
    \E qualifying \in { QualifyingTriples(applied.arguments.pointCloud) } :
      IF qualifying = {}
      THEN /\ applied.returned.type = "error"
           /\ applied.returned.message = "No valid triangles found in point cloud"
      ELSE /\ applied.returned.type = "mesh"
           /\ \E indices \in { applied.returned.indices } :
              \E emitted \in { [t \in 1..(Len(indices) \div 3) |->
                                  << indices[3 * t - 2], indices[3 * t - 1],
                                     indices[3 * t] >>] } :
                /\ Len(indices) % 3 = 0
                /\ applied.returned.indexCount = Len(indices)
                /\ Len(emitted) <= MAX_TRIANGLES
                /\ \A t \in 1..Len(emitted) : emitted[t] \in qualifying
                /\ \A t \in 1..(Len(emitted) - 1) : LexBefore(emitted[t], emitted[t + 1])
                /\ Len(emitted) = (IF Cardinality(qualifying) < MAX_TRIANGLES
                                   THEN Cardinality(qualifying) ELSE MAX_TRIANGLES)
                \* no qualifying triple is skipped
                /\ \A q \in qualifying :
                     LexBefore(q, emitted[Len(emitted)]) =>
                       \E t \in 1..Len(emitted) : emitted[t] = q

\* four points of which every triple qualifies: the first MAX_TRIANGLES
\* triples are emitted and the last, (1, 2, 3), is not
C22_Witness ==
  /\ Applied("delaunayTriangulation")
  /\ Cardinality(QualifyingTriples(applied.arguments.pointCloud)) = 4
  /\ applied.returned.type = "mesh"
  /\ applied.returned.indices = << 0, 1, 2, 0, 1, 3, 0, 2, 3 >>

\* ------------------------------------------------------------------------
\* C23: a run that raises an error (too few points, collinear, geometry
\* validation, triangulation failed) has created no mesh and added none to
\* the scene: the step that throws leaves mesh and scene as they were at the
\* call, and they are still so when the error is out.
C23_NoMeshOnError ==
  /\ pc = "thrown" =>
       /\ mesh = Null
       /\ scene = << >>
       /\ thrown.message \in {"Point cloud must have at least 3 points for triangulation",
                              "After deduplication, too few unique points remain",
                              "Points are collinear and could not be corrected",
                              "Point set geometry validation failed",
                              "Delaunay triangulation failed"}
  /\ pc \notin {"thrown", "returned"} => mesh = Null /\ scene = << >>

\* the last error a run can raise, after six attempts and the fallback
C23_Witness ==
  /\ pc = "thrown"
  /\ thrown.message = "Delaunay triangulation failed"
  /\ hist.fallbacks = 1
  /\ mesh = Null
  /\ scene = << >>

\* ------------------------------------------------------------------------
\* the points of a set with finite x and z
FiniteAt(points) ==
  {i \in 1..Len(points) : isFinite(points[i].x) /\ isFinite(points[i].z)}

\* the triangles the primitive returned to the fallback all have a non-zero
\* area in the coordinates it was given
FallbackTrianglesProper ==
  (hist.fallback # Null /\ Len(hist.fallback.points) >= 3 /\ ~hist.fallback.outcome.threw) =>
    \E combined \in { combinedPoints(hist.fallback.points, hist.fallback.boundingBox) } :
    \E coords \in { normalizeCoordinates(combined, computeCoordinateRange(combined)).coords } :
    \E triangles \in { hist.fallback.outcome.result.triangles.data } :
      \A t \in 0..((Len(triangles) \div 3) - 1) :
        /\ \A c \in 1..3 : triangles[3 * t + c] < Len(coords)
        /\ NonCollinear(<< coords[triangles[3 * t + 1] + 1],
                           coords[triangles[3 * t + 2] + 1],
                           coords[triangles[3 * t + 3] + 1] >>)

\* C24: no point with a NaN or infinite x or z is part of the point set the
\* returned mesh is assembled from (after Assemble
\* validationResult.validatedPoints is that set), whether the triangles
\* come from the loop or from the fallback; and an input with fewer than 3
\* finite deduplicated points ends in an error, never in a mesh.  Stated
\* for the runs in which the primitive gave the fallback proper triangles.
C24_OnlyFinitePointsInMesh ==
  FallbackTrianglesProper =>
    /\ MeshReturned =>
         /\ FiniteAt(validationResult.validatedPoints)
              = 1..Len(validationResult.validatedPoints)
         /\ \A c \in 1..Len(mesh.positions) :
              (c - 1) % 3 # 1 => isFinite(mesh.positions[c])
    /\ (count >= 3 /\ Cardinality(FiniteAt(Deduplicated)) < 3) => ~MeshReturned

\* the coordinates Delaunator.from is given for the final active point set
FinalNormalized ==
  normalizeCoordinates(currentPoints, computeCoordinateRange(currentPoints)).coords

\* C25: in a returned mesh vertex i is the i-th point of the final active
\* point set (currentPoints): its x and z are that point's coordinates
\* before normalization, its y is the input buffer's y at the point's
\* originalIndex, and every triangle index is a position of that ordering.
C25_MeshFromActivePoints ==
  MeshReturned =>
    /\ validationResult.validatedPoints = currentPoints
    /\ Len(mesh.positions) = 3 * Len(currentPoints)
    /\ \A i \in 1..Len(currentPoints) :
         /\ mesh.positions[3 * i - 2] = currentPoints[i].x
         /\ mesh.positions[3 * i] = currentPoints[i].z
         /\ currentPoints[i].originalIndex \in 0..(count - 1)
         /\ mesh.positions[3 * i - 1] = InputY(currentPoints[i].originalIndex)
    /\ mesh.indices = triangulationResult.triangles
    /\ \A k \in 1..Len(mesh.indices) : mesh.indices[k] \in 0..(Len(currentPoints) - 1)

\* a mesh of a point set whose normalized coordinates differ from the
\* coordinates written, returned after the active set was resampled
C25_Witness ==
  /\ MeshReturned
  /\ hist.downsamples > 0
  /\ Len(mesh.indices) >= 3
  /\ \E i \in 1..Len(currentPoints) :
       /\ isFinite(currentPoints[i].x)
       /\ FinalNormalized[i][1] # 2 * currentPoints[i].x.v
       /\ currentPoints[i].originalIndex # i - 1

\* the iteration about to run reaches line 922 with a point set that the
\* health validation rejects before and after ensureNonDegeneratePoints
StillInvalidAfterPerturbation ==
  /\ pc = "loop"
  /\ attemptCount <= Len(progressiveRatios)
  /\ \E coordValidation \in { validateCoordinates(currentPoints) } :
       /\ ~(coordValidation.type = "invalid" /\ Len(coordValidation.validPoints) < 3)
       /\ validatePointSetGeometry(coordValidation.validPoints,
                                   validationResult.boundingBox).type = "invalid"
       /\ validatePointSetGeometry(
            ensureNonDegeneratePoints(coordValidation.validPoints,
                                      validationResult.boundingBox),
            validationResult.boundingBox).type = "invalid"

\* C26: an iteration of the retry loop whose point set still fails the
\* health validation after the perturbation goes straight to a progressive
\* retry, without calling the triangulation primitive, exactly when it is
\* the first attempt (attemptCount = 0); on a later attempt the primitive is
\* called on the still-invalid set.
C26_GeometryRetryOnlyOnFirstAttempt ==
  [][ StillInvalidAfterPerturbation =>
        IF attemptCount = 0
        THEN /\ hist'.triangulations = hist.triangulations
             /\ hist'.downsamples = hist.downsamples + 1
             /\ attemptCount' = 1
             /\ pc' = "loop"
        ELSE hist'.triangulations = hist.triangulations + 1 ]_vars

\* a later attempt on a still-invalid set, reached through the retry of the
\* first attempt, in which the primitive was not called
C26_Witness ==
  /\ StillInvalidAfterPerturbation
  /\ attemptCount = 1
  /\ hist.iterations = 1
  /\ hist.triangulations = 0
  /\ FiniteAt(Deduplicated) = 1..Len(Deduplicated)

\* the deduplicated set of the input has at least 3 points and a bounding
\* box that validatePointSetGeometry rejects for its area or its aspect ratio
RejectedByBoundingBox ==
  /\ count >= 3
  /\ \E input \in { DeduplicatedInput } :
       /\ Len(input.validatedPoints) >= 3
       /\ validatePointSetGeometry(input.validatedPoints, input.boundingBox).reason
            \in {"Bounding box area too small", "Point spread too narrow"}

\* C27: an input whose deduplicated point set is rejected by the initial
\* health validation for its bounding-box area or aspect ratio never gets
\* past that validation, and unless it ends in the collinearity error it
\* ends in the geometry-validation error: the perturbation cannot change the
\* outcome, the validation after it being given the original bounding box.
C27_BoxRejectionAlwaysRaises ==
  RejectedByBoundingBox =>
    /\ pc \in {"start", "collinearity", "geometry", "thrown"}
    /\ (pc = "thrown" /\ ~isCollinear) =>
         /\ thrown.message = "Point set geometry validation failed"
         /\ thrown.reason = thrown.afterPerturbation

\* the error raised for a set that was not flagged collinear, the
\* perturbation having been applied to it
C27_Witness ==
  /\ RejectedByBoundingBox
  /\ pc = "thrown"
  /\ ~isCollinear
  /\ thrown.message = "Point set geometry validation failed"
  /\ hist.collinearityChecks = 1

\* C28: while the retry loop or the fallback is executing, the collinearity
\* flag (isCollinear) is false, and so is the flag reported by the terminal
\* triangulation-failed error, whatever point set the last attempt used.
C28_CollinearFlagFalseAfterDetection ==
  /\ pc \in {"grid", "loop", "fallback", "assemble"} => isCollinear = FALSE
  /\ (pc = "thrown" /\ thrown.message = "Delaunay triangulation failed") =>
       thrown.collinear = FALSE

\* the terminal error after a last attempt on a resampled point set without
\* three points that span a triangle
C28_Witness ==
  /\ pc = "thrown"
  /\ thrown.message = "Delaunay triangulation failed"
  /\ hist.triangulations > 0
  /\ hist.fallbacks = 1
  /\ Len(currentPoints) < Len(Deduplicated)
  /\ ~NotAllCollinear(currentPoints)

\* ------------------------------------------------------------------------
\* downsamplePoints and downsamplePointsProgressive on their own
\* the points of a 3 x 3 lattice are numbered 1..LatticePoints
LatticePoints == 9

\* the i-th lattice point of a box of side boxSide: its coordinates are 0, a
\* quarter of the side or the side, its originalIndex is i - 1
LatticePoint(i, boxSide) ==
  LET coordinate(c) == IF c = 0 THEN 0
                       ELSE IF c = 1 THEN boxSide \div 4 ELSE (c - 1) * boxSide
  IN  ValidatedPoint(Fin(coordinate((i - 1) % 3)),
                     Fin(coordinate((i - 1) \div 3)), i - 1, Fin(i))

\* the lattice points numbered in chosen, in increasing order
LatticeSequence(chosen, boxSide) ==
  [k \in 1..Cardinality(chosen) |->
     LatticePoint(CHOOSE i \in chosen : Cardinality({j \in chosen : j < i}) = k - 1,
                  boxSide)]

\* the arguments of the two functions: a box that validatePointSetGeometry
\* accepts (side 1e-3) or rejects for its area (side 5e-4)
DownsampleArguments ==
  { [points |-> LatticeSequence(chosen, boxSide),
     boundingBox |-> BoundingBox(Fin(0), Fin(boxSide), Fin(0), Fin(boxSide)),
     targetCount |-> targetCount,
     attempt |-> attempt] :
    chosen \in SUBSET (1..LatticePoints), boxSide \in {Side, Side \div 2},
    targetCount \in 3..4, attempt \in {0, 1, Len(progressiveRatios)} }

DownsampleInit ==
  \E arguments \in DownsampleArguments :
    \/ /\ arguments.attempt = 0
       /\ Applying("downsamplePoints", arguments)
    \/ /\ arguments.targetCount = 3
       /\ Applying("downsamplePointsProgressive", arguments)

DownsampleResult ==
  Apply("downsamplePoints",
        downsamplePoints(applied.arguments.points, applied.arguments.boundingBox,
                         applied.arguments.targetCount))

ProgressiveResult ==
  Apply("downsamplePointsProgressive",
        downsamplePointsProgressive(applied.arguments.points,
                                    applied.arguments.boundingBox,
                                    progressiveRatios, applied.arguments.attempt))

DownsampleNext == DownsampleResult \/ ProgressiveResult

DownsampleSpec == DownsampleInit /\ [][DownsampleNext]_vars

\* the points occupy pairwise distinct hash buckets
DistinctBuckets(points) ==
  \A i, j \in 1..Len(points) :
    i # j => hashPoint(points[i].x, points[i].z, POINT_TOLERANCE)
               # hashPoint(points[j].x, points[j].z, POINT_TOLERANCE)

\* C29: for points in pairwise distinct hash buckets, the point set
\* downsamplePoints or downsamplePointsProgressive returns (from the pass
\* with one representative per cell or from the pass with several) holds
\* only points of the input, none twice, and originalIndices[k] is the
\* originalIndex of the k-th point returned.
C29_DownsampledSubset ==
  ( /\ Applied("downsamplePoints") \/ Applied("downsamplePointsProgressive")
    /\ applied.returned # Null
    /\ DistinctBuckets(applied.arguments.points) ) =>
    LET points == applied.arguments.points
        returned == applied.returned
    IN  /\ \A k \in 1..Len(returned.points) :
             \E i \in 1..Len(points) : returned.points[k] = points[i]
        /\ \A k, l \in 1..Len(returned.points) :
             k # l => returned.points[k] # returned.points[l]
        /\ Len(returned.originalIndices) = Len(returned.points)
        /\ \A k \in 1..Len(returned.points) :
             returned.originalIndices[k] = returned.points[k].originalIndex

\* the result of the pass with several points per cell: 9 points in 4 cells
\* of a box rejected for its area; the first pass keeps the points of
\* originalIndex 3, 5, 7, 8 and the second returns those it samples that are
\* not the first of their cell
C29_Witness ==
  /\ Applied("downsamplePointsProgressive")
  /\ applied.arguments.attempt = 1
  /\ Len(applied.arguments.points) = 9
  /\ applied.returned.strategy.type = "progressive"
  /\ AreaTooSmall(applied.arguments.boundingBox)
  /\ applied.returned.originalIndices = << 3, 5, 7 >>

\* ------------------------------------------------------------------------
\* The App component (src/unnamed/part_005): the refs pointCloud,
\* navMeshData, navMeshMesh and processingStatus, and the calls of the async
\* handlers handleFileSelected and generateNavMesh that wait at an await.
\* the files selected in a run
MaxSelections == 3
\* the calls of generateNavMesh in a run
MaxGenerations == 2

\* the point cloud built from the result of parseSplatFile for the selection
\* numbered selection; gaussian says whether it has a gaussianMesh
PointCloud(selection, gaussian) ==
  [type |-> "pointCloud", selection |-> selection, gaussian |-> gaussian]

\* the navigation data and the mesh generated from a point cloud
NavMeshData(pointCloud) == [type |-> "navMeshData", pointCloud |-> pointCloud]
Mesh(pointCloud) == [type |-> "mesh", pointCloud |-> pointCloud]

\* the generate button is enabled (template, line 44)
GenerateEnabled ==
  /\ app.pointCloud # Null
  /\ app.processingStatus.stage \in {"idle", "complete"}

AppInit ==
  /\ Called(0, << >>)
  /\ applied = Null
  /\ app = [pointCloud |-> Null,
            navMeshData |-> Null,
            navMeshMesh |-> Null,
            processingStatus |-> [stage |-> "idle"],
            parsing |-> {},        \* selections waiting for parseSplatFile
            generating |-> {},     \* calls of generateNavMesh waiting for the worker
            selections |-> 0,      \* files selected so far
            generations |-> 0]     \* calls of generateNavMesh so far

AppUnchanged ==
  UNCHANGED << positions, count, pc, validationResult, initialPointCount,
               isCollinear, currentPoints, currentStrategy, attemptedStrategies,
               triangulationResult, attemptCount, thrown, mesh, scene, hist, applied >>

\* handleFileSelected without a file (lines 200-207)
SelectNothing ==
  /\ app' = [app EXCEPT !.processingStatus = [stage |-> "error"]]
  /\ AppUnchanged

\* handleFileSelected up to "await parseSplatFile(file)" (lines 209-216)
SelectFile ==
  /\ app.selections < MaxSelections
  /\ app' = [app EXCEPT !.processingStatus = [stage |-> "parsing"],
                        !.selections = @ + 1,
                        !.parsing = @ \cup {app.selections + 1}]
  /\ AppUnchanged

\* parseSplatFile resolves and handleFileSelected runs to its end (lines 216-265)
ParseResolves ==
  /\ \E selection \in app.parsing : \E gaussian \in BOOLEAN :
       app' = [app EXCEPT !.parsing = @ \ {selection},
                          !.pointCloud = PointCloud(selection, gaussian),
                          !.processingStatus = [stage |-> "idle"],
                          !.navMeshData = Null,
                          !.navMeshMesh = Null]
  /\ AppUnchanged

\* parseSplatFile rejects: the catch of handleFileSelected (lines 266-274)
ParseRejects ==
  /\ \E selection \in app.parsing :
       app' = [app EXCEPT !.parsing = @ \ {selection},
                          !.processingStatus = [stage |-> "error"],
                          !.pointCloud = Null]
  /\ AppUnchanged

\* generateNavMesh, clicked while the button is enabled, up to its await
\* (lines 282-311 with a gaussianMesh, lines 282-419 without): it waits for
\* the navigation mesh of the point cloud it has read, or it has thrown
\* before and ends in its catch
StartGeneration ==
  /\ GenerateEnabled
  /\ app.generations < MaxGenerations
  /\ \E threw \in BOOLEAN :
       app' = [app EXCEPT
                 !.generations = @ + 1,
                 !.processingStatus =
                   [stage |-> IF threw THEN "error"
                              ELSE IF app.pointCloud.gaussian THEN "converting"
                              ELSE "generating"],
                 !.generating =
                   IF threw THEN @
                   ELSE @ \cup {[generation |-> app.generations + 1,
                                 pointCloud |-> app.pointCloud]}]
  /\ AppUnchanged

\* the awaited navigation mesh arrives and generateNavMesh runs to its end
\* (lines 312-352 or 420-428); with a gaussianMesh navMeshMesh is assigned
\* only when the scene has the source mesh
GenerationResolves ==
  /\ \E generation \in app.generating : \E sourceMesh \in BOOLEAN :
       /\ (~generation.pointCloud.gaussian) => sourceMesh
       /\ app' = [app EXCEPT
                    !.generating = @ \ {generation},
                    !.navMeshData = NavMeshData(generation.pointCloud),
                    !.navMeshMesh = IF sourceMesh THEN Mesh(generation.pointCloud) ELSE @,
                    !.processingStatus = [stage |-> "complete"]]
  /\ AppUnchanged

\* the awaited call rejects, or returns no data: the catch of
\* generateNavMesh (lines 429-435)
GenerationRejects ==
  /\ \E generation \in app.generating :
       app' = [app EXCEPT !.generating = @ \ {generation},
                          !.processingStatus = [stage |-> "error"]]
  /\ AppUnchanged

AppNext ==
  \/ SelectNothing
  \/ SelectFile
  \/ ParseResolves
  \/ ParseRejects
  \/ StartGeneration
  \/ GenerationResolves
  \/ GenerationRejects

AppSpec == AppInit /\ [][AppNext]_vars

\* C30: whenever navMeshData is not null it was generated from the point
\* cloud that pointCloud holds, however the selections of files (parsed or
\* rejected) interleave with a generateNavMesh that is waiting: no
\* navigation mesh of an earlier file stays available once another file
\* has been handled.
C30_NavMeshFromCurrentPointCloud ==
  app.navMeshData # Null => app.navMeshData.pointCloud = app.pointCloud

====
